---------------------------- MODULE LuaTable_proofs ----------------------------
(***************************************************************************)
(* What holds for every table that is in use, for any fields, values and   *)
(* hash and any sizes of the array and the integers.                       *)
(*                                                                         *)
(* The argument goes up in layers.  Chains are functions from a node to    *)
(* the one after it; they have no cycle and no two of them join (Linked).  *)
(* Chains adds the keys: each is reached from its main position, a live    *)
(* key before the dead one of the same name.  newkey and the collector     *)
(* keep that.  Sane adds the array, lastfree and the sizes; from it what   *)
(* luaH_get gives is read off (Getting, PlaceGot).  The loop of resize     *)
(* puts every entry into the new vectors, with a free node for each, so    *)
(* rehash, luaH_set and luaH_setnum change no field.  IInv, the inductive  *)
(* invariant, is Sane with FlagsRight and GoingIn, how far a traversal     *)
(* has come; the theorems follow from it.                                  *)
(*                                                                         *)
(* The recursive functions of the model exist and have their values by     *)
(* LeastOf, IterationExists and IterationKeeps.                            *)
(***************************************************************************)
EXTENDS LuaTableUse, FiniteSetTheorems, SequenceTheorems, WellFoundedInduction, TLAPS

--------------------------------------------------------------------------------
(* Chains of nodes. *)
(* Chains: nx says what follows a node.  A node reaches what is in every   *)
(* set that has it and is closed under nx; this needs no recursion.        *)
Closed(S, nx) == \A x \in S : nx[x] # 0 => nx[x] \in S
Reaches(nx, a, b) == \A S \in SUBSET DOMAIN nx : a \in S /\ Closed(S, nx) => b \in S
Acyclic(nx) ==
  \E d \in [DOMAIN nx -> Nat] : \A x \in DOMAIN nx : nx[x] # 0 => d[nx[x]] < d[x]

Linked(nx, N) ==
  /\ nx \in [1 .. N -> 0 .. N] /\ Acyclic(nx)
  /\ \A a, b \in 1 .. N : nx[a] = nx[b] /\ nx[a] # 0 => a = b

(* What a node reaches, but itself, the node after it reaches. *)
LEMMA ReachesOn ==
  ASSUME NEW N \in Nat, NEW nx \in [1 .. N -> 0 .. N], NEW a \in 1 .. N, NEW b \in 1 .. N,
         Reaches(nx, a, b), a # b
  PROVE  nx[a] # 0 /\ Reaches(nx, nx[a], b)
<1>1. nx[a] # 0
  <2>1. nx[a] = 0 => Closed({a}, nx) /\ {a} \in SUBSET DOMAIN nx
    BY DEF Closed
  <2> QED
    BY <2>1 DEF Reaches
<1>2. ASSUME NEW S \in SUBSET DOMAIN nx, nx[a] \in S, Closed(S, nx)
      PROVE  b \in S
  <2>1. S \cup {a} \in SUBSET DOMAIN nx /\ a \in S \cup {a} /\ Closed(S \cup {a}, nx)
    BY <1>2 DEF Closed
  <2>2. b \in S \cup {a}
    BY <2>1 DEF Reaches
  <2> QED
    BY <2>2
<1> QED
  BY <1>1, <1>2 DEF Reaches

(* Two nodes that reach each other are one. *)
LEMMA ReachesOneWay ==
  ASSUME NEW N \in Nat, NEW nx \in [1 .. N -> 0 .. N], Acyclic(nx),
         NEW a \in 1 .. N, NEW b \in 1 .. N, Reaches(nx, a, b), Reaches(nx, b, a)
  PROVE  a = b
<1>1. PICK d \in [1 .. N -> Nat] : \A x \in 1 .. N : nx[x] # 0 => d[nx[x]] < d[x]
  BY DEF Acyclic
<1>2. ASSUME NEW c \in 1 .. N, NEW e \in 1 .. N, Reaches(nx, c, e)
      PROVE  d[e] <= d[c]
  <2> DEFINE S == {x \in 1 .. N : d[x] <= d[c]}
  <2>1. Closed(S, nx)
    <3> SUFFICES ASSUME NEW x \in S, nx[x] # 0 PROVE nx[x] \in S
      BY DEF Closed
    <3>0. x \in 1 .. N /\ nx[x] \in 0 .. N /\ d[x] <= d[c]
      OBVIOUS
    <3> HIDE DEF S
    <3>a. nx[x] # 0
      OBVIOUS
    <3>b. nx[x] \in 1 .. N
      BY <3>0, <3>a
    <3>1. nx[x] \in 1 .. N /\ d[nx[x]] < d[x] /\ d[x] <= d[c]
      BY <1>1, <3>0, <3>a, <3>b
    <3>2. d[nx[x]] \in Nat /\ d[x] \in Nat /\ d[c] \in Nat
      BY <3>0, <3>1
    <3> QED
      BY <3>1, <3>2 DEF S
  <2>2. S \in SUBSET DOMAIN nx /\ c \in S
    OBVIOUS
  <2>3. e \in S
    <3> HIDE DEF S
    <3> QED
      BY <1>2, <2>1, <2>2 DEF Reaches
  <2> QED
    BY <2>3
<1>3. SUFFICES ASSUME a # b PROVE FALSE
  OBVIOUS
<1>4. nx[a] # 0 /\ Reaches(nx, nx[a], b)
  BY <1>3, ReachesOn
<1>5. nx[a] \in 1 .. N /\ d[nx[a]] < d[a]
  BY <1>1, <1>4
<1>6. d[b] <= d[nx[a]] /\ d[a] <= d[b]
  BY <1>2, <1>4, <1>5
<1>7. d[b] \in Nat /\ d[a] \in Nat /\ d[nx[a]] \in Nat
  BY <1>5
<1> QED
  BY <1>5, <1>6, <1>7

(* A node put into a chain after mp. *)
PutAfter(mx, nx, mp, n, N) ==
  /\ nx \in [1 .. N -> 0 .. N] /\ mx \in [1 .. N -> 0 .. N] /\ n # mp
  /\ nx[n] = 0 /\ \A x \in 1 .. N : nx[x] # n
  /\ mx[mp] = n /\ mx[n] = nx[mp]
  /\ \A x \in 1 .. N : x # n /\ x # mp => mx[x] = nx[x]

(* A node put into a chain after mp: the chains stay chains, and nothing *)
(* gets lost from them.                                                  *)
LEMMA Linking ==
  ASSUME NEW N \in Nat, NEW nx, Linked(nx, N), NEW mp \in 1 .. N, NEW n \in 1 .. N,
         NEW mx, PutAfter(mx, nx, mp, n, N)
  PROVE  /\ Linked(mx, N)
         /\ \A a, b \in 1 .. N : Reaches(nx, a, b) => Reaches(mx, a, b)
         /\ Reaches(mx, mp, n)
         /\ \A b \in 1 .. N : Reaches(nx, mp, b) /\ b # mp => Reaches(mx, n, b)
<1>0. nx \in [1 .. N -> 0 .. N] /\ mx \in [1 .. N -> 0 .. N]
  BY DEF PutAfter
<1>1. /\ mx[mp] = n /\ mx[n] = nx[mp] /\ n # mp /\ nx[n] = 0 /\ \A x \in 1 .. N : nx[x] # n
      /\ \A x \in 1 .. N : x # n /\ x # mp => mx[x] = nx[x]
  BY DEF PutAfter
<1>2. Linked(mx, N)
  <2>1. \A a, b \in 1 .. N : nx[a] = nx[b] /\ nx[a] # 0 => a = b
    BY DEF Linked
  <2>2. \A a, b \in 1 .. N : mx[a] = mx[b] /\ mx[a] # 0 => a = b
    BY <1>0, <1>1, <2>1
  <2>3. PICK d \in [1 .. N -> Nat] : \A x \in 1 .. N : nx[x] # 0 => d[nx[x]] < d[x]
    BY <1>0 DEF Linked, Acyclic
  <2> DEFINE e == [x \in 1 .. N |-> IF x = n THEN 2 * d[mp] + 1 ELSE 2 * d[x] + 2]
  <2>4. e \in [1 .. N -> Nat]
    <3>1. \A x \in 1 .. N : d[x] \in Nat
      OBVIOUS
    <3> QED
      BY <3>1
  <2>5. ASSUME NEW x \in 1 .. N, mx[x] # 0 PROVE e[mx[x]] < e[x]
    <3>0. mx[x] \in 0 .. N /\ d[x] \in Nat /\ d[mp] \in Nat
      BY <1>0
    <3>1. mx[x] \in 1 .. N /\ d[x] \in Nat /\ d[mp] \in Nat
      BY <3>0, <2>5
    <3>2. CASE x = mp
      BY <3>1, <3>2, <1>1
    <3>3. CASE x = n
      <4>1. nx[mp] \in 1 .. N /\ nx[mp] # n /\ d[nx[mp]] < d[mp]
        BY <3>1, <3>3, <1>1, <2>3, <2>5
      <4>2. d[nx[mp]] \in Nat
        BY <4>1
      <4>3. e[nx[mp]] = 2 * d[nx[mp]] + 2 /\ e[n] = 2 * d[mp] + 1
        BY <4>1
      <4>4. mx[x] = nx[mp]
        BY <3>3, <1>1
      <4>5. 2 * d[nx[mp]] + 2 < 2 * d[mp] + 1
        BY <3>0, <4>1, <4>2
      <4> QED
        BY <3>3, <4>3, <4>4, <4>5
    <3>4. CASE x # mp /\ x # n
      <4>1. mx[x] = nx[x] /\ nx[x] # n /\ d[nx[x]] < d[x]
        BY <3>4, <1>1, <2>3, <2>5
      <4>2. d[nx[x]] \in Nat
        BY <3>1, <4>1
      <4>3. e[nx[x]] = 2 * d[nx[x]] + 2 /\ e[x] = 2 * d[x] + 2
        BY <3>1, <3>4, <4>1
      <4>4. 2 * d[nx[x]] + 2 < 2 * d[x] + 2
        BY <3>0, <4>1, <4>2
      <4> QED
        BY <4>1, <4>3, <4>4
    <3> QED
      BY <3>2, <3>3, <3>4
  <2>6. Acyclic(mx)
    <3>1. DOMAIN mx = 1 .. N
      BY <1>0
    <3> HIDE DEF e
    <3> QED
      BY <3>1, <2>4, <2>5 DEF Acyclic
  <2> QED
    BY <1>0, <2>2, <2>6 DEF Linked
<1>3. ASSUME NEW S \in SUBSET (1 .. N), Closed(S, mx) PROVE Closed(S, nx)
  BY <1>0, <1>1, <1>3 DEF Closed
<1>4. \A a, b \in 1 .. N : Reaches(nx, a, b) => Reaches(mx, a, b)
  BY <1>0, <1>3 DEF Reaches
<1>5. Reaches(mx, mp, n)
  BY <1>0, <1>1 DEF Reaches, Closed
<1>6. ASSUME NEW b \in 1 .. N, Reaches(nx, mp, b), b # mp PROVE Reaches(mx, n, b)
  <2> SUFFICES ASSUME NEW S \in SUBSET (1 .. N), n \in S, Closed(S, mx) PROVE b \in S
    BY <1>0 DEF Reaches
  <2>1. Closed(S \cup {mp}, nx)
    BY <1>0, <1>1 DEF Closed
  <2>2. S \cup {mp} \in SUBSET (1 .. N) /\ mp \in S \cup {mp}
    OBVIOUS
  <2>3. b \in S \cup {mp}
    BY <1>0, <1>6, <2>1, <2>2 DEF Reaches
  <2> QED
    BY <1>6, <2>3
<1> QED
  BY <1>2, <1>4, <1>5, <1>6

(* A node of a chain moved from mp to n; p is the one before it. *)
MovedTo(mx, nx, p, mp, n, N) ==
  /\ nx \in [1 .. N -> 0 .. N] /\ mx \in [1 .. N -> 0 .. N] /\ n # mp /\ p # mp /\ p # n
  /\ nx[n] = 0 /\ nx[p] = mp /\ \A x \in 1 .. N : nx[x] # n
  /\ mx[mp] = 0 /\ mx[n] = nx[mp] /\ mx[p] = n
  /\ \A x \in 1 .. N : x # n /\ x # mp /\ x # p => mx[x] = nx[x]

Moved(x, mp, n) == IF x = mp THEN n ELSE x

(* A node moved from mp to n: the chains stay chains, with n for mp. *)
LEMMA Moving ==
  ASSUME NEW N \in Nat, NEW nx, Linked(nx, N), NEW mp \in 1 .. N, NEW n \in 1 .. N, NEW p \in 1 .. N,
         NEW mx, MovedTo(mx, nx, p, mp, n, N)
  PROVE  /\ Linked(mx, N)
         /\ \A a, b \in (1 .. N) \ {n} :
              Reaches(nx, a, b) => Reaches(mx, Moved(a, mp, n), Moved(b, mp, n))
<1>0. nx \in [1 .. N -> 0 .. N] /\ mx \in [1 .. N -> 0 .. N]
  BY DEF MovedTo
<1>1. /\ mx[mp] = 0 /\ mx[n] = nx[mp] /\ mx[p] = n /\ n # mp /\ p # mp /\ p # n
      /\ nx[n] = 0 /\ nx[p] = mp /\ \A x \in 1 .. N : nx[x] # n
      /\ \A x \in 1 .. N : x # n /\ x # mp /\ x # p => mx[x] = nx[x]
  BY DEF MovedTo
<1>2. \A a, b \in 1 .. N : nx[a] = nx[b] /\ nx[a] # 0 => a = b
  BY DEF Linked
<1>3. PICK d \in [1 .. N -> Nat] : \A x \in 1 .. N : nx[x] # 0 => d[nx[x]] < d[x]
  BY <1>0 DEF Linked, Acyclic
<1>4. nx[mp] # mp
  <2>1. d[mp] \in Nat
    OBVIOUS
  <2> QED
    BY <1>3, <2>1
<1>5. Linked(mx, N)
  <2>2. \A a, b \in 1 .. N : mx[a] = mx[b] /\ mx[a] # 0 => a = b
    <3> SUFFICES ASSUME NEW a \in 1 .. N, NEW b \in 1 .. N, mx[a] = mx[b], mx[a] # 0 PROVE a = b
      OBVIOUS
    <3>1. a # mp /\ b # mp
      BY <1>1
    <3>2. ASSUME NEW x \in 1 .. N, mx[x] = n PROVE x = p
      BY <1>1, <3>2
    <3>3. CASE a = p \/ b = p
      BY <1>1, <3>2, <3>3
    <3>4. CASE a # p /\ b # p
      <4> DEFINE s(x) == IF x = n THEN mp ELSE x
      <4>1. s(a) \in 1 .. N /\ s(b) \in 1 .. N /\ mx[a] = nx[s(a)] /\ mx[b] = nx[s(b)]
        BY <1>1, <3>1, <3>4
      <4>2. s(a) = s(b)
        <5> HIDE DEF s
        <5> QED
          BY <1>2, <4>1
      <4> QED
        BY <3>1, <4>2
    <3> QED
      BY <3>3, <3>4
  <2> DEFINE e == [x \in 1 .. N |-> IF x = n THEN d[mp] ELSE d[x]]
  <2>4. e \in [1 .. N -> Nat]
    <3>1. \A x \in 1 .. N : d[x] \in Nat
      OBVIOUS
    <3> QED
      BY <3>1
  <2>5. ASSUME NEW x \in 1 .. N, mx[x] # 0 PROVE e[mx[x]] < e[x]
    <3>0. mx[x] \in 0 .. N
      BY <1>0
    <3>a. mx[x] \in 1 .. N
      BY <3>0, <2>5
    <3>b. x # mp
      BY <1>1, <2>5
    <3>1. mx[x] \in 1 .. N /\ x # mp
      BY <3>a, <3>b
    <3>2. CASE x = p
      <4>1. mx[x] = n /\ nx[p] = mp /\ mp # 0
        BY <3>2, <1>1
      <4>2. d[mp] < d[p]
        BY <1>3, <4>1
      <4>3. e[n] = d[mp] /\ e[p] = d[p]
        BY <1>1
      <4> QED
        BY <3>2, <4>1, <4>2, <4>3
    <3>3. CASE x = n
      <4>1. nx[mp] \in 1 .. N /\ nx[mp] # n /\ d[nx[mp]] < d[mp]
        BY <3>1, <3>3, <1>1, <1>3, <2>5
      <4> QED
        BY <3>3, <1>1, <4>1
    <3>4. CASE x # p /\ x # n
      <4>1. mx[x] = nx[x] /\ nx[x] # n /\ d[nx[x]] < d[x]
        BY <3>1, <3>4, <1>1, <1>3, <2>5
      <4> QED
        BY <3>1, <3>4, <4>1
    <3> QED
      BY <3>2, <3>3, <3>4
  <2>6. Acyclic(mx)
    <3>1. DOMAIN mx = 1 .. N
      BY <1>0
    <3> HIDE DEF e
    <3> QED
      BY <3>1, <2>4, <2>5 DEF Acyclic
  <2> QED
    BY <1>0, <2>2, <2>6 DEF Linked
<1>6. ASSUME NEW a \in (1 .. N) \ {n}, NEW b \in (1 .. N) \ {n}, Reaches(nx, a, b),
             NEW S \in SUBSET (1 .. N), Moved(a, mp, n) \in S, Closed(S, mx)
      PROVE  Moved(b, mp, n) \in S
  <2> DEFINE U == {x \in (1 .. N) \ {n} : Moved(x, mp, n) \in S}
  <2>1. ASSUME NEW x \in U, nx[x] # 0 PROVE nx[x] \in U
    <3>1. x \in 1 .. N /\ x # n /\ Moved(x, mp, n) \in S
      OBVIOUS
    <3>a. nx[x] \in 0 .. N /\ nx[x] # 0
      BY <1>0, <2>1, <3>1
    <3>2. nx[x] \in 1 .. N /\ nx[x] # n
      BY <1>1, <3>a, <3>1
    <3>3. CASE x = mp
      <4>1. n \in S /\ mx[n] = nx[x] /\ mx[n] # 0
        BY <1>1, <2>1, <3>1, <3>3 DEF Moved
      <4>2. nx[x] \in S
        BY <1>6, <4>1 DEF Closed
      <4> QED
        BY <1>4, <3>2, <3>3, <4>2 DEF Moved
    <3>4. CASE x = p
      <4>1. x \in S /\ mx[x] = n /\ nx[x] = mp
        BY <1>1, <3>1, <3>4 DEF Moved
      <4>2. n \in S
        BY <1>6, <4>1 DEF Closed
      <4> QED
        BY <4>1, <4>2, <3>2 DEF Moved
    <3>5. CASE x # mp /\ x # p
      <4>1. x \in S /\ mx[x] = nx[x]
        BY <1>1, <3>1, <3>5 DEF Moved
      <4>2. nx[x] \in S
        BY <1>6, <4>1, <2>1 DEF Closed
      <4>a. nx[p] = mp /\ nx[p] # 0
        BY <1>1
      <4>3. nx[x] # mp
        BY <1>2, <3>1, <3>5, <4>a
      <4> QED
        BY <3>2, <4>2, <4>3 DEF Moved
    <3> QED
      BY <3>3, <3>4, <3>5
  <2>2. U \in SUBSET DOMAIN nx /\ a \in U
    BY <1>0, <1>6
  <2>3. b \in U
    <3> HIDE DEF U
    <3> QED
      BY <1>6, <2>1, <2>2 DEF Reaches, Closed
  <2> QED
    BY <2>3
<1> QED
  BY <1>0, <1>5, <1>6 DEF Reaches

--------------------------------------------------------------------------------
(* Induction, and functions defined from number to number. *)
(* A set of numbers has a least one; what holds for every number is *)
(* proved from it, as < is well-founded.                            *)
LEMMA LeastOf ==
  ASSUME NEW T, T \subseteq Nat, T # {}
  PROVE  \E n \in T : \A m \in T : n <= m
<1>1. PICK n \in T : \A y \in T : ~(<<y, n>> \in OpToRel(<, Nat))
  BY WFMin, NatLessThanWellFounded
<1>2. ASSUME NEW m \in T PROVE n <= m
  <2>1. ~(m < n)
    BY <1>1 DEF OpToRel
  <2> QED
    BY <2>1
<1> QED
  BY <1>2

(* What holds at a, and at each number after one where it holds, holds up *)
(* to b.                                                                  *)
LEMMA Upward ==
  ASSUME NEW a \in Nat, NEW b \in Nat, a <= b, NEW T \in SUBSET (a .. b), a \in T,
         \A i \in a .. b : i \in T /\ i < b => i + 1 \in T
  PROVE  a .. b \subseteq T
<1> DEFINE U == (a .. b) \ T
<1> SUFFICES ASSUME U # {} PROVE FALSE
  OBVIOUS
<1>1. U \subseteq Nat
  OBVIOUS
<1>2. PICK n \in U : \A m \in U : n <= m
  <2> HIDE DEF U
  <2> QED
    BY <1>1, LeastOf
<1>3. n \in a .. b /\ n \notin T /\ n # a
  OBVIOUS
<1>4. n - 1 \in a .. b /\ n - 1 < b /\ (n - 1) + 1 = n /\ ~(n <= n - 1)
  BY <1>3
<1>5. n - 1 \in T
  BY <1>2, <1>4
<1> QED
  BY <1>3, <1>4, <1>5

(* A function that is defined from number to number exists. *)
Iterated(f, a, b, x, g) ==
  f = [i \in a .. b |-> IF i = a THEN x ELSE g[<<i, f[i - 1]>>]]

(* A function that is defined from number to number exists, and keeps to *)
(* the set it is in.                                                     *)
LEMMA IterationExists ==
  ASSUME NEW a \in Nat, NEW b \in Nat, a <= b, NEW S, NEW x \in S,
         NEW g \in [(a .. b) \X S -> S]
  PROVE  \E f \in [a .. b -> S] : Iterated(f, a, b, x, g)
<1> DEFINE Ok(m) == \E f \in [a .. m -> S] :
                      f[a] = x /\ \A i \in a + 1 .. m : f[i] = g[<<i, f[i - 1]>>]
           T == {m \in a .. b : Ok(m)}
<1>1. Ok(a)
  <2>1. [i \in a .. a |-> x] \in [a .. a -> S]
    OBVIOUS
  <2>2. [i \in a .. a |-> x][a] = x /\ a + 1 .. a = {}
    OBVIOUS
  <2> QED
    BY <2>1, <2>2
<1>2. ASSUME NEW m \in a .. b, Ok(m), m < b PROVE Ok(m + 1)
  <2>1. PICK f \in [a .. m -> S] : f[a] = x /\ \A i \in a + 1 .. m : f[i] = g[<<i, f[i - 1]>>]
    BY <1>2
  <2>2. m \in Nat /\ m + 1 \in a .. b /\ m \in a .. m /\ a # m + 1 /\ a \in a .. m
    BY <1>2
  <2>3. f[m] \in S /\ g[<<m + 1, f[m]>>] \in S
    BY <2>2
  <2> DEFINE h == [i \in a .. m + 1 |-> IF i = m + 1 THEN g[<<m + 1, f[m]>>] ELSE f[i]]
  <2>4. \A i \in a .. m + 1 : i # m + 1 => i \in a .. m
    BY <2>2
  <2>5. h \in [a .. m + 1 -> S]
    BY <2>3, <2>4
  <2>6. h[a] = x
    BY <2>1, <2>2
  <2>7. ASSUME NEW i \in a + 1 .. m + 1 PROVE h[i] = g[<<i, h[i - 1]>>]
    <3>1. i \in a .. m + 1 /\ i - 1 \in a .. m + 1 /\ i - 1 # m + 1
      BY <2>2
    <3>2. h[i - 1] = f[i - 1]
      BY <3>1
    <3>3. CASE i = m + 1
      <4>1. h[i] = g[<<m + 1, f[m]>>] /\ i - 1 = m
        BY <2>2, <3>1, <3>3
      <4> QED
        BY <3>2, <3>3, <4>1
    <3>4. CASE i # m + 1
      <4>1. h[i] = f[i] /\ i \in a + 1 .. m
        BY <2>2, <3>1, <3>4
      <4> QED
        BY <2>1, <3>2, <4>1
    <3> QED
      BY <3>3, <3>4
  <2> HIDE DEF h
  <2> QED
    BY <2>5, <2>6, <2>7
<1>3. Ok(b)
  <2>1. \A i \in a .. b : i \in T /\ i < b => i + 1 \in T
    <3> SUFFICES ASSUME NEW i \in a .. b, i \in T, i < b PROVE i + 1 \in T
      OBVIOUS
    <3>1. Ok(i) /\ i + 1 \in a .. b
      OBVIOUS
    <3> HIDE DEF Ok
    <3> QED
      BY <1>2, <3>1
  <2>2. a \in T /\ T \in SUBSET (a .. b)
    <3> HIDE DEF Ok
    <3> QED
      BY <1>1
  <2>3. a .. b \subseteq T
    <3> HIDE DEF T
    <3> QED
      BY <2>1, <2>2, Upward
  <2>4. b \in a .. b
    OBVIOUS
  <2> HIDE DEF Ok
  <2> QED
    BY <2>3, <2>4
<1>4. PICK f \in [a .. b -> S] : f[a] = x /\ \A i \in a + 1 .. b : f[i] = g[<<i, f[i - 1]>>]
  BY <1>3
<1>5. \A i \in a .. b : f[i] = IF i = a THEN x ELSE g[<<i, f[i - 1]>>]
  <2> SUFFICES ASSUME NEW i \in a .. b PROVE f[i] = IF i = a THEN x ELSE g[<<i, f[i - 1]>>]
    OBVIOUS
  <2>1. i # a => i \in a + 1 .. b
    OBVIOUS
  <2> QED
    BY <1>4, <2>1
<1>6. f = [i \in a .. b |-> IF i = a THEN x ELSE g[<<i, f[i - 1]>>]]
  <2>1. DOMAIN f = a .. b
    OBVIOUS
  <2>2. f = [i \in a .. b |-> f[i]]
    BY <2>1
  <2> QED
    BY <1>5, <2>2, Zenon
<1> QED
  BY <1>6 DEF Iterated

(* What its steps keep, all its values have. *)
LEMMA IterationKeeps ==
  ASSUME NEW a \in Nat, NEW b \in Nat, a <= b, NEW x, NEW g, NEW f, Iterated(f, a, b, x, g),
         NEW R, <<a, x>> \in R,
         \A i \in a .. b : \A y : <<i, y>> \in R /\ i < b => <<i + 1, g[<<i + 1, y>>]>> \in R
  PROVE  \A i \in a .. b : <<i, f[i]>> \in R
<1> DEFINE T == {i \in a .. b : <<i, f[i]>> \in R}
<1>1. \A i \in a .. b : f[i] = IF i = a THEN x ELSE g[<<i, f[i - 1]>>]
  BY Zenon DEF Iterated
<1>2. a \in T
  <2>1. a \in a .. b
    OBVIOUS
  <2> QED
    BY <1>1, <2>1
<1>3. ASSUME NEW i \in a .. b, i \in T, i < b PROVE i + 1 \in T
  <2>1. i + 1 \in a .. b /\ i + 1 # a /\ (i + 1) - 1 = i
    BY <1>3
  <2>2. f[i + 1] = g[<<i + 1, f[i]>>]
    BY <1>1, <2>1
  <2>3. <<i + 1, g[<<i + 1, f[i]>>]>> \in R
    BY <1>3
  <2> QED
    BY <2>1, <2>2, <2>3
<1>4. a .. b \subseteq T
  <2>1. T \in SUBSET (a .. b)
    OBVIOUS
  <2> HIDE DEF T
  <2> QED
    BY <1>2, <1>3, <2>1, Upward
<1> QED
  BY <1>4
Nexts(t) == [n \in 1 .. sizenode(t) |-> t.node[n].next]

(* A function that is iterated. *)
Iterate(f, N, x, g) == f = [i \in 0 .. N |-> IF i = 0 THEN x ELSE g[f[i - 1]]]

(* The same for a step that does not depend on the number. *)
LEMMA IterateExists ==
  ASSUME NEW N \in Nat, NEW S, NEW x \in S, NEW g \in [S -> S]
  PROVE  \E f \in [0 .. N -> S] : Iterate(f, N, x, g)
<1> DEFINE h == [p \in (0 .. N) \X S |-> g[p[2]]]
<1>0. 0 \in Nat /\ 0 <= N
  OBVIOUS
<1>1. h \in [(0 .. N) \X S -> S]
  OBVIOUS
<1>2. PICK f \in [0 .. N -> S] : Iterated(f, 0, N, x, h)
  <2> HIDE DEF h
  <2> QED
    BY <1>1, <1>0, IterationExists
<1>3. f = [i \in 0 .. N |-> IF i = 0 THEN x ELSE h[<<i, f[i - 1]>>]]
  BY <1>2 DEF Iterated
<1>4. \A i \in 0 .. N : f[i] = IF i = 0 THEN x ELSE g[f[i - 1]]
  <2> SUFFICES ASSUME NEW i \in 0 .. N PROVE f[i] = IF i = 0 THEN x ELSE g[f[i - 1]]
    OBVIOUS
  <2>1. f[i] = IF i = 0 THEN x ELSE h[<<i, f[i - 1]>>]
    BY <1>3, Zenon
  <2>2. i # 0 => f[i - 1] \in S
    OBVIOUS
  <2>3. i # 0 => h[<<i, f[i - 1]>>] = g[f[i - 1]]
    BY <2>2
  <2> QED
    BY <2>1, <2>3
<1>5. f = [i \in 0 .. N |-> f[i]]
  OBVIOUS
<1>6. f = [i \in 0 .. N |-> IF i = 0 THEN x ELSE g[f[i - 1]]]
  BY <1>4, <1>5, Zenon
<1> QED
  BY <1>6 DEF Iterate

(* Search, the loops over next of ltable.c, finds the first of the wanted *)
(* nodes on a chain; NULL if there is none.                               *)
LEMMA Searching ==
  ASSUME NEW t, NEW N \in Nat, N = sizenode(t), NEW nx, nx = Nexts(t), nx \in [1 .. N -> 0 .. N],
         Acyclic(nx), NEW start \in 1 .. N, NEW wanted \in SUBSET (1 .. N),
         NEW r, r = Search(t, start, wanted)
  PROVE  /\ r \in 0 .. N
         /\ r = 0 => \A w \in wanted : ~Reaches(nx, start, w)
         /\ r # 0 => /\ r \in wanted /\ Reaches(nx, start, r)
                     /\ \A w \in wanted : Reaches(nx, start, w) => Reaches(nx, r, w)
<1> DEFINE onward == [m \in 0 .. sizenode(t) |-> IF m = NULL \/ m \in wanted THEN m ELSE t.node[m].next]
           walk == CHOOSE f : f = [i \in 0 .. sizenode(t) |-> IF i = 0 THEN start ELSE onward[f[i - 1]]]
<1>a. r = walk[sizenode(t)]
  BY Zenon DEF Search
<1>b. onward = [m \in 0 .. N |-> IF m = 0 \/ m \in wanted THEN m ELSE nx[m]]
  <2>1. \A m \in 0 .. N : m # 0 => nx[m] = t.node[m].next
    <3>1. \A m \in 0 .. N : m # 0 => m \in 1 .. N
      OBVIOUS
    <3> QED
      BY <3>1 DEF Nexts
  <2> QED
    BY <2>1 DEF NULL
<1>c. 0 \in Nat /\ 0 <= N
  OBVIOUS
<1> HIDE DEF onward
<1>1. onward \in [0 .. N -> 0 .. N]
  <2>1. ASSUME NEW m \in 0 .. N PROVE (IF m = 0 \/ m \in wanted THEN m ELSE nx[m]) \in 0 .. N
    <3>1. m # 0 => m \in 1 .. N
      OBVIOUS
    <3> QED
      BY <3>1
  <2> QED
    BY <1>b, <2>1
<1>2. walk = [i \in 0 .. N |-> IF i = 0 THEN start ELSE onward[walk[i - 1]]]
  <2>1. start \in 0 .. N
    OBVIOUS
  <2>2. \E f \in [0 .. N -> 0 .. N] : Iterate(f, N, start, onward)
    <3>1. PICK C : C = 0 .. N
      OBVIOUS
    <3>2. onward \in [C -> C] /\ start \in C
      BY <1>1, <2>1, <3>1
    <3>3. \E f \in [0 .. N -> C] : Iterate(f, N, start, onward)
      BY <3>2, IterateExists
    <3> QED
      BY <3>1, <3>3
  <2>3. \E f : f = [i \in 0 .. sizenode(t) |-> IF i = 0 THEN start ELSE onward[f[i - 1]]]
    <3>1. \E f : Iterate(f, sizenode(t), start, onward)
      BY <2>2
    <3> QED
      BY <3>1, Zenon DEF Iterate
  <2>4. walk = [i \in 0 .. sizenode(t) |-> IF i = 0 THEN start ELSE onward[walk[i - 1]]]
    BY <2>3, Zenon
  <2> QED
    BY <2>4
<1>3. r = walk[N]
  BY <1>a
<1> HIDE DEF walk
<1>4. /\ walk[0] = start
      /\ \A i \in 0 .. N : i # 0 => walk[i] = onward[walk[i - 1]]
  <2>1. 0 \in 0 .. N
    OBVIOUS
  <2> QED
    BY <1>2, <2>1, Zenon
<1>5. \A i \in 0 .. N : walk[i] \in 0 .. N
  <2> DEFINE T == {i \in 0 .. N : walk[i] \in 0 .. N}
  <2>1. 0 \in T
    BY <1>4
  <2>2. ASSUME NEW i \in 0 .. N, i \in T, i < N PROVE i + 1 \in T
    <3>1. i + 1 \in 0 .. N /\ i + 1 # 0 /\ (i + 1) - 1 = i
      BY <2>2
    <3>a. walk[i] \in 0 .. N
      BY <2>2
    <3>b. walk[i + 1] = onward[walk[(i + 1) - 1]]
      BY <1>4, <3>1, Zenon
    <3>2. walk[i + 1] = onward[walk[i]] /\ walk[i] \in 0 .. N
      BY <3>1, <3>a, <3>b
    <3> QED
      BY <1>1, <3>1, <3>2
  <2>3. 0 .. N \subseteq T
    <3>1. T \in SUBSET (0 .. N)
      OBVIOUS
    <3> HIDE DEF T
    <3> QED
      BY <1>c, <2>1, <2>2, <3>1, Upward
  <2> QED
    BY <2>3
<1>6. \A i \in 0 .. N : i < N => walk[i + 1] = IF walk[i] = 0 \/ walk[i] \in wanted THEN walk[i] ELSE nx[walk[i]]
  <2> SUFFICES ASSUME NEW i \in 0 .. N, i < N
               PROVE  walk[i + 1] = IF walk[i] = 0 \/ walk[i] \in wanted THEN walk[i] ELSE nx[walk[i]]
    OBVIOUS
  <2>1. i + 1 \in 0 .. N /\ i + 1 # 0 /\ (i + 1) - 1 = i
    OBVIOUS
  <2>2. walk[i + 1] = onward[walk[i]]
    BY <1>4, <2>1
  <2>3. walk[i] \in 0 .. N
    BY <1>5
  <2> QED
    BY <1>b, <2>2, <2>3
<1> DEFINE Stopped(i) == walk[i] = 0 \/ walk[i] \in wanted
<1>7. \A i \in 0 .. N : Stopped(i) => walk[N] = walk[i]
  <2> SUFFICES ASSUME NEW i \in 0 .. N, Stopped(i) PROVE walk[N] = walk[i]
    OBVIOUS
  <2>a. i \in Nat /\ i <= N
    OBVIOUS
  <2> DEFINE T == {j \in i .. N : walk[j] = walk[i]}
  <2>1. i \in T /\ T \in SUBSET (i .. N)
    OBVIOUS
  <2>2. ASSUME NEW j \in i .. N, j \in T, j < N PROVE j + 1 \in T
    <3>1. j \in 0 .. N /\ j + 1 \in i .. N /\ walk[j] = walk[i]
      BY <2>2
    <3>2. walk[j + 1] = walk[j]
      BY <1>6, <2>2, <3>1
    <3> QED
      BY <3>1, <3>2
  <2>3. i .. N \subseteq T
    <3> HIDE DEF T
    <3> QED
      BY <2>a, <2>1, <2>2, Upward
  <2>4. N \in i .. N
    OBVIOUS
  <2> QED
    BY <2>3, <2>4
<1>8. Stopped(N)
  <2> SUFFICES ASSUME ~Stopped(N) PROVE FALSE
    OBVIOUS
  <2>1. \A i \in 0 .. N : ~Stopped(i)
    BY <1>7
  <2>2. \A i \in 0 .. N : walk[i] \in 1 .. N /\ (i < N => walk[i + 1] = nx[walk[i]])
    BY <1>5, <1>6, <2>1
  <2>3. PICK d \in [1 .. N -> Nat] : \A x \in 1 .. N : nx[x] # 0 => d[nx[x]] < d[x]
    BY DEF Acyclic
  <2>4. \A i \in 0 .. N : d[walk[i]] \in Nat
    BY <2>2
  <2>5. \A i \in 0 .. N : i < N => d[walk[i + 1]] < d[walk[i]]
    <3> SUFFICES ASSUME NEW i \in 0 .. N, i < N PROVE d[walk[i + 1]] < d[walk[i]]
      OBVIOUS
    <3>1. i + 1 \in 0 .. N /\ walk[i] \in 1 .. N /\ walk[i + 1] = nx[walk[i]] /\ walk[i + 1] \in 1 .. N
      BY <2>2
    <3>2. nx[walk[i]] # 0
      BY <3>1
    <3> QED
      BY <2>3, <3>1, <3>2
  <2>6. ASSUME NEW i \in 0 .. N, NEW j \in 0 .. N, i < j PROVE walk[i] # walk[j]
    <3> DEFINE T == {k \in i + 1 .. N : d[walk[k]] < d[walk[i]]}
    <3>1. i + 1 \in T /\ T \in SUBSET (i + 1 .. N) /\ i + 1 <= N
      BY <2>5, <2>6
    <3>2. ASSUME NEW k \in i + 1 .. N, k \in T, k < N PROVE k + 1 \in T
      <4>1. k \in 0 .. N /\ k + 1 \in 0 .. N /\ k + 1 \in i + 1 .. N
        BY <3>2
      <4>2. d[walk[k + 1]] < d[walk[k]] /\ d[walk[k]] < d[walk[i]]
        BY <2>5, <3>2, <4>1
      <4> QED
        BY <2>4, <4>1, <4>2
    <3>3. i + 1 .. N \subseteq T
      <4>1. i + 1 \in Nat
        OBVIOUS
      <4> HIDE DEF T
      <4> QED
        BY <3>1, <3>2, <4>1, Upward
    <3>4. j \in i + 1 .. N
      BY <2>6
    <3>5. d[walk[j]] < d[walk[i]]
      BY <3>3, <3>4
    <3> QED
      BY <2>4, <3>5
  <2> DEFINE f == [i \in 0 .. N |-> walk[i]]
  <2>7. f \in [0 .. N -> 1 .. N]
    BY <2>2
  <2>8. /\ IsFiniteSet(0 .. N) /\ Cardinality(0 .. N) = N + 1
        /\ IsFiniteSet(1 .. N) /\ Cardinality(1 .. N) = N
    BY FS_Interval
  <2>9. PICK x \in 0 .. N, y \in 0 .. N : x # y /\ f[x] = f[y]
    <3>1. Cardinality(1 .. N) < Cardinality(0 .. N)
      BY <2>8
    <3> DEFINE A == 0 .. N
               B == 1 .. N
    <3>2. IsFiniteSet(A) /\ IsFiniteSet(B) /\ Cardinality(B) < Cardinality(A) /\ f \in [A -> B]
      BY <2>7, <2>8, <3>1
    <3> HIDE DEF f, A, B
    <3>3. \E x, y \in A : x # y /\ f[x] = f[y]
      BY <3>2, FS_PigeonHole
    <3> QED
      BY <3>3 DEF A
  <2> QED
    BY <2>6, <2>9
<1> DEFINE V == {walk[i] : i \in 0 .. N} \ {0}
<1>9. V \in SUBSET (1 .. N)
  BY <1>5
<1>10. ASSUME NEW v \in V, nx[v] # 0, v \notin wanted PROVE nx[v] \in V
  <2>1. PICK i \in 0 .. N : v = walk[i]
    OBVIOUS
  <2>2. v # 0
    OBVIOUS
  <2>3. CASE i = N
    BY <1>8, <1>10, <2>1, <2>2, <2>3
  <2>4. CASE i < N
    <3>1. walk[i + 1] = nx[v] /\ i + 1 \in 0 .. N
      BY <1>6, <1>10, <2>1, <2>2, <2>4
    <3> QED
      BY <1>10, <3>1
  <2>5. i = N \/ i < N
    OBVIOUS
  <2> QED
    BY <2>3, <2>4, <2>5
<1>11. ASSUME NEW v \in V, v \in wanted PROVE v = r
  <2>1. PICK i \in 0 .. N : v = walk[i]
    OBVIOUS
  <2>2. Stopped(i)
    BY <1>11, <2>1
  <2> QED
    BY <1>3, <1>7, <2>1, <2>2
<1>12. start \in V
  <2>1. 0 \in 0 .. N /\ start # 0
    OBVIOUS
  <2> QED
    BY <1>4, <2>1
<1>13. ASSUME r # 0 PROVE r \in wanted /\ Reaches(nx, start, r)
  <2>1. r \in wanted
    BY <1>3, <1>8, <1>13
  <2>2. ASSUME NEW S \in SUBSET (1 .. N), start \in S, Closed(S, nx) PROVE r \in S
    <3> DEFINE T == {i \in 0 .. N : walk[i] = 0 \/ walk[i] \in S}
    <3>1. 0 \in T /\ T \in SUBSET (0 .. N)
      BY <1>4, <2>2
    <3>2. ASSUME NEW i \in 0 .. N, i \in T, i < N PROVE i + 1 \in T
      <4>1. i + 1 \in 0 .. N
        BY <3>2
      <4>2. walk[i] = 0 \/ walk[i] \in S
        BY <3>2
      <4>3. walk[i] \in S => nx[walk[i]] = 0 \/ nx[walk[i]] \in S
        BY <2>2 DEF Closed
      <4> QED
        BY <1>6, <3>2, <4>1, <4>2, <4>3
    <3>3. 0 .. N \subseteq T
      <4> HIDE DEF T
      <4> QED
        BY <1>c, <3>1, <3>2, Upward
    <3>4. N \in 0 .. N
      OBVIOUS
    <3> QED
      BY <1>3, <1>13, <3>3, <3>4
  <2> QED
    BY <2>1, <2>2 DEF Reaches
<1>14. ASSUME NEW w \in wanted, Reaches(nx, start, w),
              NEW S \in SUBSET (1 .. N), r # 0 => r \in S, Closed(S, nx)
       PROVE  w \in S
  <2> HIDE DEF V
  <2>1. ASSUME NEW x \in V, nx[x] # 0 PROVE nx[x] \in S \cup V
    <3>1. CASE x \in wanted
      <4>1. x = r /\ r # 0
        BY <1>9, <1>11, <3>1
      <4> QED
        BY <1>14, <2>1, <4>1 DEF Closed
    <3> QED
      BY <1>10, <2>1, <3>1
  <2>2. Closed(S \cup V, nx)
    BY <1>14, <2>1 DEF Closed
  <2>3. S \cup V \in SUBSET DOMAIN nx /\ start \in S \cup V
    BY <1>9, <1>12
  <2>4. w \in S \cup V
    BY <1>14, <2>2, <2>3 DEF Reaches
  <2>5. w \in V => w \in S
    <3> SUFFICES ASSUME w \in V PROVE w \in S
      OBVIOUS
    <3>1. w = r /\ r # 0
      BY <1>9, <1>11
    <3> QED
      BY <1>14, <3>1
  <2> QED
    BY <2>4, <2>5
<1>15. ASSUME r = 0, NEW w \in wanted, Reaches(nx, start, w) PROVE FALSE
  <2>1. Closed({}, nx)
    BY DEF Closed
  <2> QED
    BY <1>14, <1>15, <2>1
<1>16. ASSUME r # 0, NEW w \in wanted, Reaches(nx, start, w) PROVE Reaches(nx, r, w)
  BY <1>14, <1>16 DEF Reaches
<1>17. r \in 0 .. N
  <2>1. N \in 0 .. N
    OBVIOUS
  <2> QED
    BY <1>3, <1>5, <2>1
<1> QED
  BY <1>13, <1>15, <1>16, <1>17

--------------------------------------------------------------------------------
(* The keys on the chains: what newkey and the collector keep. *)
(* The keys of the nodes: K says which key a node has, nx what follows it, *)
(* h which node a key belongs to, its main position.                       *)
DeadFields == {Dead(key) : key \in Fields}
Original(key) == IF key \in Fields THEN key ELSE key[2]

(* A dead key is no field and is the dead key of one field only. *)
LEMMA KeyKinds ==
  /\ Nil \notin Fields /\ Nil \notin DeadFields /\ Fields \cap DeadFields = {}
  /\ \A key \in Fields : Original(key) = key /\ Original(Dead(key)) = key
  /\ \A key \in DeadFields : key = Dead(Original(key)) /\ Original(key) \in Fields
<1>1. Nil \notin Fields
  <2>1. Nil[1] = "nil"
    BY DEF Nil
  <2> QED
    BY <2>1, FieldsAssumption
<1>2. \A key \in DeadFields : key[1] = "dead" /\ key # Nil /\ key = Dead(key[2]) /\ key[2] \in Fields
  BY DEF DeadFields, Dead, Nil
<1>3. Fields \cap DeadFields = {}
  BY <1>2, FieldsAssumption
<1>4. \A key \in Fields : Original(key) = key /\ Original(Dead(key)) = key
  <2> SUFFICES ASSUME NEW key \in Fields PROVE Original(key) = key /\ Original(Dead(key)) = key
    OBVIOUS
  <2>1. Dead(key) \in DeadFields /\ Dead(key)[2] = key
    BY DEF DeadFields, Dead
  <2>2. Dead(key) \notin Fields
    BY <1>3, <2>1
  <2> QED
    BY <2>1, <2>2 DEF Original
<1>5. \A key \in DeadFields : key = Dead(Original(key)) /\ Original(key) \in Fields
  BY <1>2, <1>3 DEF Original
<1> QED
  BY <1>1, <1>2, <1>3, <1>4, <1>5

Chains(K, nx, h, N) ==
  /\ K \in [1 .. N -> Fields \cup DeadFields \cup {Nil}]
  /\ Linked(nx, N)
  /\ h \in [Fields -> 1 .. N]
  /\ \A n \in 1 .. N : K[n] = Nil => nx[n] = 0
  /\ \A n \in 1 .. N : nx[n] # 0 => K[nx[n]] # Nil
  /\ \A n \in 1 .. N : K[n] # Nil =>
       LET m == h[Original(K[n])]
       IN K[m] # Nil /\ h[Original(K[m])] = m /\ Reaches(nx, m, n)
  /\ \A a, b \in 1 .. N : K[a] \in Fields /\ K[a] = K[b] => a = b
  /\ \A a, b \in 1 .. N : K[a] \in Fields /\ K[b] = Dead(K[a]) => Reaches(nx, a, b)

(* A node reaches itself. *)
LEMMA ReachesItself == ASSUME NEW nx, NEW a PROVE Reaches(nx, a, a)
BY DEF Reaches

(* A key of a node, alive or dead, was a field. *)
LEMMA OriginalIn == \A key \in Fields \cup DeadFields \cup {Nil} : key # Nil => Original(key) \in Fields
BY KeyKinds

(* A field is no dead key. *)
LEMMA NotDead == \A key \in Fields, other \in Fields : Dead(key) # other
BY KeyKinds DEF DeadFields

(* newkey, where the main position is free: the key gets it. *)
LEMMA ChainsTaken ==
  ASSUME NEW N \in Nat, NEW K, NEW nx, NEW h, Chains(K, nx, h, N),
         NEW mp \in 1 .. N, NEW key \in Fields, h[key] = mp, \A n \in 1 .. N : K[n] # key,
         NEW J, J = [K EXCEPT ![mp] = key]
  PROVE  Chains(J, nx, h, N)
<1>1. /\ K \in [1 .. N -> Fields \cup DeadFields \cup {Nil}] /\ Linked(nx, N) /\ h \in [Fields -> 1 .. N]
      /\ nx \in [1 .. N -> 0 .. N]
  BY DEF Chains, Linked
<1>2. /\ J \in [1 .. N -> Fields \cup DeadFields \cup {Nil}]
      /\ J[mp] = key /\ \A n \in 1 .. N : n # mp => J[n] = K[n]
  BY <1>1
<1>3. key # Nil /\ Original(key) = key
  BY KeyKinds
<1>4. \A n \in 1 .. N : J[n] = Nil => nx[n] = 0
  BY <1>2, <1>3 DEF Chains
<1>5. \A n \in 1 .. N : nx[n] # 0 => J[nx[n]] # Nil
  <2> SUFFICES ASSUME NEW n \in 1 .. N, nx[n] # 0 PROVE J[nx[n]] # Nil
    OBVIOUS
  <2>1. nx[n] \in 0 .. N /\ K[nx[n]] # Nil
    BY <1>1 DEF Chains
  <2>2. nx[n] \in 1 .. N
    BY <2>1
  <2> QED
    BY <1>2, <1>3, <2>1, <2>2
<1>6. ASSUME NEW n \in 1 .. N, J[n] # Nil
      PROVE  LET m == h[Original(J[n])]
             IN J[m] # Nil /\ h[Original(J[m])] = m /\ Reaches(nx, m, n)
  <2>1. CASE n = mp
    BY <2>1, <1>2, <1>3, ReachesItself
  <2>2. CASE n # mp
    <3> DEFINE m == h[Original(K[n])]
    <3>1. J[n] = K[n] /\ K[m] # Nil /\ h[Original(K[m])] = m /\ Reaches(nx, m, n)
      BY <1>2, <1>6, <2>2 DEF Chains
    <3>2. m \in 1 .. N
      BY <1>1, <1>6, <3>1, OriginalIn
    <3>3. J[m] # Nil /\ h[Original(J[m])] = m
      BY <1>2, <1>3, <3>1, <3>2
    <3> QED
      BY <3>1, <3>3
  <2> QED
    BY <2>1, <2>2
<1>7. ASSUME NEW a \in 1 .. N, NEW b \in 1 .. N, J[a] \in Fields, J[a] = J[b] PROVE a = b
  BY <1>2, <1>7 DEF Chains
<1>8. ASSUME NEW a \in 1 .. N, NEW b \in 1 .. N, J[a] \in Fields, J[b] = Dead(J[a])
      PROVE  Reaches(nx, a, b)
  <2>1. b # mp /\ J[b] = K[b] /\ K[b] # Nil
    <3>1. b # mp
      BY <1>2, <1>8, NotDead
    <3>2. J[b] \in DeadFields
      BY <1>8 DEF DeadFields
    <3> QED
      BY <1>2, <3>1, <3>2, KeyKinds
  <2>2. CASE a = mp
    <3>1. Original(K[b]) = key
      BY <1>2, <1>8, <2>1, <2>2, KeyKinds
    <3> QED
      BY <2>1, <2>2, <3>1 DEF Chains
  <2>3. CASE a # mp
    BY <1>2, <1>8, <2>1, <2>3 DEF Chains
  <2> QED
    BY <2>2, <2>3
<1> QED
  BY <1>1, <1>2, <1>4, <1>5, <1>6, <1>7, <1>8 DEF Chains

(* newkey, where the main position has a key that belongs there: the new *)
(* one gets a free node, after it.                                       *)
LEMMA ChainsLinked ==
  ASSUME NEW N \in Nat, NEW K, NEW nx, NEW h, Chains(K, nx, h, N),
         NEW mp \in 1 .. N, NEW key \in Fields, h[key] = mp, \A n \in 1 .. N : K[n] # key,
         NEW n \in 1 .. N, n # mp, K[n] = Nil, K[mp] \in Fields, h[K[mp]] = mp,
         NEW J, J = [K EXCEPT ![n] = key],
         NEW mx, mx = [nx EXCEPT ![n] = nx[mp], ![mp] = n]
  PROVE  Chains(J, mx, h, N)
<1>1. /\ K \in [1 .. N -> Fields \cup DeadFields \cup {Nil}] /\ Linked(nx, N) /\ h \in [Fields -> 1 .. N]
      /\ nx \in [1 .. N -> 0 .. N]
  BY DEF Chains, Linked
<1>2. /\ J \in [1 .. N -> Fields \cup DeadFields \cup {Nil}]
      /\ J[n] = key /\ \A x \in 1 .. N : x # n => J[x] = K[x]
  BY <1>1
<1>3. key # Nil /\ Original(key) = key /\ Original(K[mp]) = K[mp] /\ K[mp] # Nil
  BY KeyKinds
<1>4. nx[n] = 0 /\ \A x \in 1 .. N : nx[x] # n
  <2>1. \A x \in 1 .. N : nx[x] = n => n # 0
    OBVIOUS
  <2> QED
    BY <2>1 DEF Chains
<1>b. mx \in [1 .. N -> 0 .. N]
  BY <1>1
<1>6. mx \in [1 .. N -> 0 .. N] /\ mx[mp] = n /\ mx[n] = nx[mp] /\ \A x \in 1 .. N : x # n /\ x # mp => mx[x] = nx[x]
  BY <1>1, <1>b
<1>d. PutAfter(mx, nx, mp, n, N)
  BY <1>1, <1>4, <1>6 DEF PutAfter
<1>5. /\ Linked(mx, N)
      /\ \A a, b \in 1 .. N : Reaches(nx, a, b) => Reaches(mx, a, b)
      /\ Reaches(mx, mp, n)
      /\ \A b \in 1 .. N : Reaches(nx, mp, b) /\ b # mp => Reaches(mx, n, b)
  <2>1. Linked(nx, N) /\ N \in Nat /\ mp \in 1 .. N /\ n \in 1 .. N
    BY <1>1
  <2>2. Linked(mx, N)
    BY <2>1, <1>d, Linking
  <2>3. \A a, b \in 1 .. N : Reaches(nx, a, b) => Reaches(mx, a, b)
    BY <2>1, <1>d, Linking
  <2>4. Reaches(mx, mp, n)
    BY <2>1, <1>d, Linking
  <2>5. \A b \in 1 .. N : Reaches(nx, mp, b) /\ b # mp => Reaches(mx, n, b)
    BY <2>1, <1>d, Linking
  <2> QED
    BY <2>2, <2>3, <2>4, <2>5
<1>7. \A x \in 1 .. N : J[x] = Nil => mx[x] = 0
  BY <1>2, <1>3, <1>6 DEF Chains
<1>8. \A x \in 1 .. N : mx[x] # 0 => J[mx[x]] # Nil
  <2> SUFFICES ASSUME NEW x \in 1 .. N, mx[x] # 0 PROVE J[mx[x]] # Nil
    OBVIOUS
  <2>1. CASE mx[x] = n
    BY <2>1, <1>2, <1>3
  <2>2. CASE mx[x] # n
    <3>1. PICK y \in 1 .. N : mx[x] = nx[y]
      BY <2>2, <1>6
    <3>2. nx[y] \in 0 .. N /\ K[nx[y]] # Nil
      BY <1>1, <3>1 DEF Chains
    <3>3. nx[y] \in 1 .. N
      BY <3>1, <3>2
    <3> QED
      BY <1>2, <2>2, <3>1, <3>2, <3>3
  <2> QED
    BY <2>1, <2>2
<1>9. ASSUME NEW x \in 1 .. N, J[x] # Nil
      PROVE  LET m == h[Original(J[x])]
             IN J[m] # Nil /\ h[Original(J[m])] = m /\ Reaches(mx, m, x)
  <2>1. CASE x = n
    BY <2>1, <1>2, <1>3, <1>5
  <2>2. CASE x # n
    <3> DEFINE m == h[Original(K[x])]
    <3>1. J[x] = K[x] /\ K[m] # Nil /\ h[Original(K[m])] = m /\ Reaches(nx, m, x)
      BY <1>2, <1>9, <2>2 DEF Chains
    <3>2. m \in 1 .. N
      BY <1>1, <1>9, <3>1, OriginalIn
    <3>3. m # n /\ J[m] = K[m]
      BY <1>2, <3>1, <3>2
    <3>4. Reaches(mx, m, x)
      <4> HIDE DEF m
      <4> QED
        BY <1>5, <3>1, <3>2
    <3> QED
      BY <3>1, <3>3, <3>4
  <2> QED
    BY <2>1, <2>2
<1>10. ASSUME NEW a \in 1 .. N, NEW b \in 1 .. N, J[a] \in Fields, J[a] = J[b] PROVE a = b
  BY <1>2, <1>10 DEF Chains
<1>11. ASSUME NEW a \in 1 .. N, NEW b \in 1 .. N, J[a] \in Fields, J[b] = Dead(J[a])
       PROVE  Reaches(mx, a, b)
  <2>1. b # n /\ J[b] = K[b] /\ K[b] # Nil /\ K[b] \notin Fields
    <3>1. b # n
      BY <1>2, <1>11, NotDead
    <3>2. J[b] \in DeadFields
      BY <1>11 DEF DeadFields
    <3> QED
      BY <1>2, <3>1, <3>2, KeyKinds
  <2>2. CASE a = n
    <3>1. Original(K[b]) = key
      BY <1>2, <1>11, <2>1, <2>2, KeyKinds
    <3>2. Reaches(nx, mp, b) /\ b # mp
      BY <2>1, <3>1 DEF Chains
    <3> QED
      BY <1>5, <2>2, <3>2
  <2>3. CASE a # n
    <3>1. Reaches(nx, a, b)
      BY <1>2, <1>11, <2>1, <2>3 DEF Chains
    <3> QED
      BY <1>5, <3>1
  <2> QED
    BY <2>2, <2>3
<1> QED
  BY <1>1, <1>2, <1>5, <1>7, <1>8, <1>9, <1>10, <1>11 DEF Chains

(* newkey, where the main position has a key that belongs elsewhere: that *)
(* one is moved to a free node, in its own chain.                         *)
LEMMA ChainsMoved ==
  ASSUME NEW N \in Nat, NEW K, NEW nx, NEW h, Chains(K, nx, h, N),
         NEW mp \in 1 .. N, NEW key \in Fields, h[key] = mp, \A n \in 1 .. N : K[n] # key,
         NEW n \in 1 .. N, n # mp, K[n] = Nil, K[mp] \in Fields, h[K[mp]] # mp,
         NEW p \in 1 .. N, nx[p] = mp,
         NEW J, J = [K EXCEPT ![n] = K[mp], ![mp] = key],
         NEW mx, mx = [nx EXCEPT ![p] = n, ![n] = nx[mp], ![mp] = 0]
  PROVE  Chains(J, mx, h, N)
<1>1. /\ K \in [1 .. N -> Fields \cup DeadFields \cup {Nil}] /\ Linked(nx, N) /\ h \in [Fields -> 1 .. N]
      /\ nx \in [1 .. N -> 0 .. N]
  BY DEF Chains, Linked
<1>2. /\ J \in [1 .. N -> Fields \cup DeadFields \cup {Nil}]
      /\ J[n] = K[mp] /\ J[mp] = key /\ \A x \in 1 .. N : x # n /\ x # mp => J[x] = K[x]
  BY <1>1
<1>3. key # Nil /\ Original(key) = key /\ Original(K[mp]) = K[mp] /\ K[mp] # Nil
  BY KeyKinds
<1>4. nx[n] = 0 /\ \A x \in 1 .. N : nx[x] # n
  <2>1. \A x \in 1 .. N : nx[x] = n => n # 0
    OBVIOUS
  <2> QED
    BY <2>1 DEF Chains
<1>a. p # n /\ p # mp
  <2>1. p # n
    BY <1>4
  <2>2. PICK d \in [1 .. N -> Nat] : \A x \in 1 .. N : nx[x] # 0 => d[nx[x]] < d[x]
    BY <1>1 DEF Linked, Acyclic
  <2>3. d[mp] \in Nat /\ mp # 0
    OBVIOUS
  <2> QED
    BY <2>1, <2>2, <2>3
<1>c. mx \in [1 .. N -> 0 .. N]
  <2>1. nx[mp] \in 0 .. N /\ n \in 0 .. N /\ 0 \in 0 .. N
    BY <1>1
  <2> QED
    BY <1>1, <2>1
<1>6. /\ mx \in [1 .. N -> 0 .. N] /\ mx[mp] = 0 /\ mx[n] = nx[mp] /\ mx[p] = n
      /\ \A x \in 1 .. N : x # n /\ x # mp /\ x # p => mx[x] = nx[x]
  BY <1>1, <1>a, <1>c
<1>d. MovedTo(mx, nx, p, mp, n, N)
  BY <1>1, <1>4, <1>6, <1>a DEF MovedTo
<1>5. /\ Linked(mx, N)
      /\ \A a, b \in (1 .. N) \ {n} :
           Reaches(nx, a, b) => Reaches(mx, Moved(a, mp, n), Moved(b, mp, n))
  BY <1>1, <1>d, Moving
<1>7. \A x \in 1 .. N : J[x] = Nil => mx[x] = 0
  <2> SUFFICES ASSUME NEW x \in 1 .. N, J[x] = Nil PROVE mx[x] = 0
    OBVIOUS
  <2>1. x # n /\ x # mp /\ K[x] = Nil
    BY <1>2, <1>3
  <2>2. nx[x] = 0
    BY <2>1 DEF Chains
  <2>3. x # p
    BY <2>2
  <2> QED
    BY <1>6, <2>1, <2>2, <2>3
<1>8. \A x \in 1 .. N : mx[x] # 0 => J[mx[x]] # Nil
  <2> SUFFICES ASSUME NEW x \in 1 .. N, mx[x] # 0 PROVE J[mx[x]] # Nil
    OBVIOUS
  <2>1. CASE mx[x] = n \/ mx[x] = mp
    BY <2>1, <1>2, <1>3
  <2>2. CASE mx[x] # n /\ mx[x] # mp
    <3>1. PICK y \in 1 .. N : mx[x] = nx[y]
      BY <2>2, <1>6
    <3>2. nx[y] \in 0 .. N /\ K[nx[y]] # Nil
      BY <1>1, <3>1 DEF Chains
    <3>3. nx[y] \in 1 .. N
      BY <3>1, <3>2
    <3> QED
      BY <1>2, <2>2, <3>1, <3>2, <3>3
  <2> QED
    BY <2>1, <2>2
(* Where the key of a node was before. *)
<1>b. ASSUME NEW x \in 1 .. N, x # mp, J[x] # Nil
      PROVE  \E y \in 1 .. N : /\ x = Moved(y, mp, n) /\ y # n /\ J[x] = K[y] /\ K[y] # Nil
                               /\ h[Original(K[y])] # mp /\ h[Original(K[y])] # n
  <2>1. PICK y \in 1 .. N : x = Moved(y, mp, n) /\ y # n /\ J[x] = K[y]
    <3>1. CASE x = n
      BY <3>1, <1>2 DEF Moved
    <3>2. CASE x # n
      BY <3>2, <1>b, <1>2 DEF Moved
    <3> QED
      BY <3>1, <3>2
  <2> DEFINE m == h[Original(K[y])]
  <2>2. K[m] # Nil /\ h[Original(K[m])] = m
    BY <1>b, <2>1 DEF Chains
  <2>3. m # n
    BY <2>2
  <2>4. m # mp
    BY <1>3, <2>2
  <2> HIDE DEF m
  <2> QED
    BY <1>b, <2>1, <2>3, <2>4 DEF m
<1>9. ASSUME NEW x \in 1 .. N, J[x] # Nil
      PROVE  LET m == h[Original(J[x])]
             IN J[m] # Nil /\ h[Original(J[m])] = m /\ Reaches(mx, m, x)
  <2>1. CASE x = mp
    BY <2>1, <1>2, <1>3, ReachesItself
  <2>2. CASE x # mp
    <3>1. PICK y \in 1 .. N : /\ x = Moved(y, mp, n) /\ y # n /\ J[x] = K[y] /\ K[y] # Nil
                              /\ h[Original(K[y])] # mp /\ h[Original(K[y])] # n
      BY <1>9, <1>b, <2>2
    <3> DEFINE m == h[Original(K[y])]
    <3>2. K[m] # Nil /\ h[Original(K[m])] = m /\ Reaches(nx, m, y)
      BY <3>1 DEF Chains
    <3>3. m \in 1 .. N
      BY <1>1, <3>1, OriginalIn
    <3>4. J[m] = K[m]
      BY <1>2, <3>1, <3>3
    <3>5. Reaches(mx, m, x)
      <4>1. m # mp /\ m # n
        BY <3>1
      <4> HIDE DEF m
      <4>2. Reaches(mx, Moved(m, mp, n), Moved(y, mp, n))
        BY <1>5, <3>1, <3>2, <3>3, <4>1
      <4> QED
        BY <3>1, <4>1, <4>2 DEF Moved
    <3> QED
      BY <3>1, <3>2, <3>4, <3>5
  <2> QED
    BY <2>1, <2>2
<1>10. ASSUME NEW a \in 1 .. N, NEW b \in 1 .. N, J[a] \in Fields, J[a] = J[b] PROVE a = b
  <2>1. J[a] # Nil /\ J[b] # Nil
    BY <1>10, KeyKinds
  <2>2. CASE a = mp \/ b = mp
    BY <1>2, <1>10, <2>1, <2>2
  <2>3. CASE a # mp /\ b # mp
    <3>1. PICK y \in 1 .. N : a = Moved(y, mp, n) /\ J[a] = K[y]
      BY <1>b, <2>1, <2>3
    <3>2. PICK z \in 1 .. N : b = Moved(z, mp, n) /\ J[b] = K[z]
      BY <1>b, <2>1, <2>3
    <3>3. y = z
      BY <1>10, <3>1, <3>2 DEF Chains
    <3> QED
      BY <3>1, <3>2, <3>3
  <2> QED
    BY <2>2, <2>3
<1>11. ASSUME NEW a \in 1 .. N, NEW b \in 1 .. N, J[a] \in Fields, J[b] = Dead(J[a])
       PROVE  Reaches(mx, a, b)
  <2>1. b # mp /\ J[b] # Nil
    <3>1. b # mp
      BY <1>2, <1>11, NotDead
    <3>2. J[b] \in DeadFields
      BY <1>11 DEF DeadFields
    <3> QED
      BY <3>1, <3>2, KeyKinds
  <2>2. PICK z \in 1 .. N : /\ b = Moved(z, mp, n) /\ z # n /\ J[b] = K[z]
                            /\ h[Original(K[z])] # mp
    BY <1>b, <2>1
  <2>3. a # mp
    <3>1. Original(K[z]) = J[a]
      BY <1>11, <2>2, KeyKinds
    <3> QED
      BY <1>2, <2>2, <3>1
  <2>4. PICK y \in 1 .. N : a = Moved(y, mp, n) /\ y # n /\ J[a] = K[y]
    BY <1>b, <1>11, <2>3, KeyKinds
  <2>5. Reaches(nx, y, z)
    BY <1>11, <2>2, <2>4 DEF Chains
  <2> QED
    BY <1>5, <2>2, <2>4, <2>5
<1> QED
  BY <1>1, <1>2, <1>5, <1>7, <1>8, <1>9, <1>10, <1>11 DEF Chains

(* removeentry: a key that is collected stays in its chain as a dead one. *)
LEMMA ChainsCollected ==
  ASSUME NEW N \in Nat, NEW K, NEW nx, NEW h, Chains(K, nx, h, N),
         NEW J \in [1 .. N -> Fields \cup DeadFields \cup {Nil}],
         \A n \in 1 .. N : J[n] = K[n] \/ (K[n] \in Fields /\ J[n] = Dead(K[n]))
  PROVE  Chains(J, nx, h, N)
<1>1. /\ K \in [1 .. N -> Fields \cup DeadFields \cup {Nil}] /\ Linked(nx, N) /\ h \in [Fields -> 1 .. N]
      /\ nx \in [1 .. N -> 0 .. N]
  BY DEF Chains, Linked
<1>2. \A n \in 1 .. N : J[n] = Nil <=> K[n] = Nil
  <2>1. \A key \in Fields : Dead(key) # Nil
    BY KeyKinds DEF DeadFields
  <2> QED
    BY <2>1, KeyKinds
<1>3. \A n \in 1 .. N : J[n] # Nil => Original(J[n]) = Original(K[n])
  BY KeyKinds
<1>4. \A n \in 1 .. N : J[n] \in Fields => K[n] = J[n]
  BY NotDead
<1>5. \A n \in 1 .. N : J[n] = Nil => nx[n] = 0
  BY <1>2 DEF Chains
<1>6. \A n \in 1 .. N : nx[n] # 0 => J[nx[n]] # Nil
  <2> SUFFICES ASSUME NEW n \in 1 .. N, nx[n] # 0 PROVE J[nx[n]] # Nil
    OBVIOUS
  <2>1. nx[n] \in 0 .. N /\ K[nx[n]] # Nil
    BY <1>1 DEF Chains
  <2>2. nx[n] \in 1 .. N
    BY <2>1
  <2> QED
    BY <1>2, <2>1, <2>2
<1>7. ASSUME NEW n \in 1 .. N, J[n] # Nil
      PROVE  LET m == h[Original(J[n])]
             IN J[m] # Nil /\ h[Original(J[m])] = m /\ Reaches(nx, m, n)
  <2> DEFINE m == h[Original(K[n])]
  <2>1. K[n] # Nil /\ K[m] # Nil /\ h[Original(K[m])] = m /\ Reaches(nx, m, n)
    BY <1>2, <1>7 DEF Chains
  <2>2. m \in 1 .. N
    BY <1>1, <2>1, OriginalIn
  <2> QED
    BY <1>2, <1>3, <1>7, <2>1, <2>2
<1>8. ASSUME NEW a \in 1 .. N, NEW b \in 1 .. N, J[a] \in Fields, J[a] = J[b] PROVE a = b
  BY <1>4, <1>8 DEF Chains
<1>9. ASSUME NEW a \in 1 .. N, NEW b \in 1 .. N, J[a] \in Fields, J[b] = Dead(J[a])
      PROVE  Reaches(nx, a, b)
  <2>1. K[a] = J[a]
    BY <1>4, <1>9
  <2>2. CASE J[b] = K[b]
    BY <1>9, <2>1, <2>2 DEF Chains
  <2>3. CASE K[b] \in Fields /\ J[b] = Dead(K[b])
    <3>1. K[b] = K[a]
      BY <1>9, <2>1, <2>3, KeyKinds
    <3>2. a = b
      BY <1>9, <2>1, <3>1 DEF Chains
    <3> QED
      BY <3>2, ReachesItself
  <2> QED
    BY <2>2, <2>3
<1> QED
  BY <1>1, <1>5, <1>6, <1>7, <1>8, <1>9 DEF Chains

(* setnodevector: nodes without keys are chains of one. *)
LEMMA ChainsFresh ==
  ASSUME NEW N \in Nat, NEW h \in [Fields -> 1 .. N],
         NEW K, K = [n \in 1 .. N |-> Nil], NEW nx, nx = [n \in 1 .. N |-> 0]
  PROVE  Chains(K, nx, h, N)
<1>1. nx \in [1 .. N -> 0 .. N] /\ \A n \in 1 .. N : nx[n] = 0
  OBVIOUS
<1>2. [n \in 1 .. N |-> 0] \in [1 .. N -> Nat]
  OBVIOUS
<1>3. Linked(nx, N)
  BY <1>1, <1>2 DEF Linked, Acyclic
<1>4. K \in [1 .. N -> Fields \cup DeadFields \cup {Nil}] /\ \A n \in 1 .. N : K[n] = Nil
  OBVIOUS
<1> QED
  BY <1>1, <1>3, <1>4, KeyKinds DEF Chains

--------------------------------------------------------------------------------
(* What a table is made of. *)
(* What a table is made of. *)
Value == Values \cup {Nil}
Key == Fields \cup DeadFields \cup {Nil}
Node == [key : Key, val : Value, next : Nat]
Table == [array : Seq(Value), node : Seq(Node), dummy : BOOLEAN, lastfree : Nat,
          metatable : {NULL}, flags : SUBSET FlaggedEvents]

KeysOf(t) == [n \in 1 .. sizenode(t) |-> t.node[n].key]
ValuesOf(t) == [n \in 1 .. sizenode(t) |-> t.node[n].val]
Home(t) == [key \in Fields |-> mainposition(t, key)]

(* A function on 1 .. n is a sequence of n. *)
LEMMA LengthOf ==
  ASSUME NEW n \in Nat, NEW S, NEW s \in [1 .. n -> S]
  PROVE  s \in Seq(S) /\ Len(s) = n
OBVIOUS

(* The fields of a table, each with its type. *)
LEMMA TableParts ==
  ASSUME NEW t \in Table
  PROVE  /\ sizearray(t) \in Nat /\ t.array \in [1 .. sizearray(t) -> Value]
         /\ sizenode(t) \in Nat /\ t.node \in [1 .. sizenode(t) -> Node]
         /\ KeysOf(t) \in [1 .. sizenode(t) -> Key]
         /\ ValuesOf(t) \in [1 .. sizenode(t) -> Value]
         /\ Nexts(t) \in [1 .. sizenode(t) -> Nat]
         /\ t.dummy \in BOOLEAN /\ t.lastfree \in Nat /\ t.flags \in SUBSET FlaggedEvents
<1>1. t.array \in Seq(Value) /\ t.node \in Seq(Node)
  BY DEF Table
<1>2. /\ sizearray(t) \in Nat /\ t.array \in [1 .. sizearray(t) -> Value]
      /\ sizenode(t) \in Nat /\ t.node \in [1 .. sizenode(t) -> Node]
  BY <1>1, LenProperties DEF sizearray, sizenode
<1>3. \A n \in 1 .. sizenode(t) : t.node[n].key \in Key /\ t.node[n].val \in Value /\ t.node[n].next \in Nat
  <2>1. \A n \in 1 .. sizenode(t) : t.node[n] \in Node
    BY <1>2
  <2> QED
    BY <2>1 DEF Node
<1> QED
  BY <1>2, <1>3 DEF KeysOf, ValuesOf, Nexts, Table

(* hashint, hashpow2 and hashmod: the hash of a key is one of n places, *)
(* also for a negative number.                                          *)
LEMMA HashPlace ==
  ASSUME NEW key \in Places, NEW n \in Nat \ {0}
  PROVE  HashIn(key, n) \in 0 .. n - 1
<1>1. \A k \in Int, m \in Nat \ {0} : k % m \in 0 .. m - 1
  OBVIOUS
<1>2. key[1] # "bool" => Hash(key) \in Int
  BY FieldsAssumption
<1>3. key[1] = "bool" => key[2] \in BOOLEAN
  BY FieldsAssumption DEF Places, Num, Event, Str
<1>4. CASE IsString(key)
  <2>1. HashIn(key, n) = Hash(key) % n
    BY <1>4 DEF HashIn, IsString, Num
  <2> QED
    BY <1>1, <1>2, <1>4, <2>1 DEF IsString
<1>5. CASE ~IsString(key) /\ key = Num(0)
  BY <1>5 DEF HashIn, IsString, Num
<1>6. CASE ~IsString(key) /\ key # Num(0) /\ key[1] = "bool"
  <2>1. HashIn(key, n) = (IF key[2] THEN 1 ELSE 0) % n
    BY <1>6 DEF HashIn, IsString, Num
  <2>2. (IF key[2] THEN 1 ELSE 0) \in Int
    OBVIOUS
  <2> QED
    BY <1>1, <2>1, <2>2
<1>7. CASE ~IsString(key) /\ key # Num(0) /\ key[1] # "bool"
  <2>1. HashIn(key, n) = hashmod(Hash(key), n)
    BY <1>7 DEF HashIn, IsString, Num
  <2>2. CASE n % 2 = 0
    <3>1. n - 1 \in Nat \ {0}
      BY <2>2
    <3>2. Hash(key) % (n - 1) \in 0 .. (n - 1) - 1
      BY <1>1, <1>2, <1>7, <3>1
    <3> QED
      BY <2>1, <2>2, <3>2 DEF hashmod
  <2>3. CASE n % 2 # 0
    BY <1>1, <1>2, <1>7, <2>1, <2>3 DEF hashmod
  <2> QED
    BY <2>2, <2>3
<1> QED
  BY <1>4, <1>5, <1>6, <1>7

--------------------------------------------------------------------------------
(* What every table is, and what luaH_get gives. *)
(* What every table is, more than WellFormed says. *)
Sane(t) ==
  /\ t \in Table /\ sizenode(t) > 0 /\ sizearray(t) <= MAX_INT /\ t.lastfree \in 1 .. sizenode(t) + 1
  /\ \A n \in 1 .. sizenode(t) : t.node[n].key \notin Fields => t.node[n].val = Nil
  /\ \A n \in 1 .. sizenode(t) : t.node[n].key \in Fields => ~InArray(t, t.node[n].key)
  /\ \A i \in 1 .. sizearray(t) : t.array[i] # Nil => Num(i) \in Fields
  /\ t.dummy => t.node = <<FreeNode>> /\ t.lastfree = 1
  /\ ~t.dummy => /\ sizenode(t) = twoto[CeilLog2(sizenode(t))]
                 /\ \A n \in t.lastfree .. sizenode(t) : t.node[n].key # Nil
  /\ Chains(KeysOf(t), Nexts(t), Home(t), sizenode(t))

(* The keys, values and links of the nodes. *)
LEMMA NodeFacts ==
  ASSUME NEW t \in Table, NEW n \in 1 .. sizenode(t)
  PROVE  /\ KeysOf(t)[n] = t.node[n].key /\ ValuesOf(t)[n] = t.node[n].val
         /\ Nexts(t)[n] = t.node[n].next
BY DEF KeysOf, ValuesOf, Nexts

(* The main position of a key is a node. *)
LEMMA Place ==
  ASSUME NEW t \in Table, sizenode(t) > 0, NEW key \in Places
  PROVE  mainposition(t, key) \in 1 .. sizenode(t)
<1>1. sizenode(t) \in Nat \ {0}
  BY TableParts
<1>2. HashIn(key, sizenode(t)) \in 0 .. sizenode(t) - 1
  BY <1>1, HashPlace
<1> QED
  BY <1>1, <1>2 DEF mainposition

(* Fields and indices are asked for, nil and dead keys are not. *)
LEMMA PlacesKeys ==
  /\ Fields \subseteq Places /\ Nil \notin Places /\ Places \cap DeadFields = {}
  /\ \A i \in Indexes : Num(i) \in Places
<1>1. \A key \in Places : key[1] # "nil" /\ key[1] # "dead"
  BY FieldsAssumption DEF Places, Num, Event, Str
<1>2. \A key \in DeadFields : key[1] = "dead"
  BY DEF DeadFields, Dead
<1> QED
  BY <1>1, <1>2 DEF Places, Nil

(* The search from the main position of a key finds its node, past dead *)
(* keys and past keys of other nodes.                                   *)
LEMMA NodeIs ==
  ASSUME NEW t, Sane(t), NEW key \in Places
  PROVE  /\ \A n \in 1 .. sizenode(t) : t.node[n].key = key => NodeOf(t, key) = n
         /\ (\A n \in 1 .. sizenode(t) : t.node[n].key # key) => NodeOf(t, key) = NULL
<1> DEFINE N == sizenode(t)
           nx == Nexts(t)
           K == KeysOf(t)
           r == NodeOf(t, key)
           m == mainposition(t, key)
<1>1. t \in Table /\ N > 0 /\ N \in Nat /\ K \in [1 .. N -> Key] /\ Chains(K, nx, Home(t), N)
  BY TableParts DEF Sane
<1>2. nx \in [1 .. N -> 0 .. N] /\ Acyclic(nx)
  BY <1>1 DEF Chains, Linked
<1>3. m \in 1 .. N
  BY <1>1, Place
<1>4. Holding(t, key) \in SUBSET (1 .. N)
  BY DEF Holding
<1>5. \A n \in 1 .. N : n \in Holding(t, key) <=> K[n] = key
  BY DEF Holding, KeysOf
<1>6. r = Search(t, m, Holding(t, key))
  BY DEF NodeOf
<1>7. /\ r \in 0 .. N
      /\ r = 0 => \A w \in Holding(t, key) : ~Reaches(nx, m, w)
      /\ r # 0 => r \in Holding(t, key)
  <2> HIDE DEF N, nx, r, m
  <2>1. N = sizenode(t) /\ nx = Nexts(t)
    BY DEF N, nx
  <2> QED
    BY <1>1, <1>2, <1>3, <1>4, <1>6, <2>1, Searching
<1>8. ASSUME NEW n \in 1 .. N, K[n] = key PROVE r = n
  <2>1. key \in Fields /\ key # Nil /\ Original(key) = key
    BY <1>1, <1>8, PlacesKeys, KeyKinds DEF Key
  <2>2. Home(t)[key] = m
    BY <2>1 DEF Home
  <2>3. Reaches(nx, m, n)
    BY <1>1, <1>8, <2>1, <2>2 DEF Chains
  <2>4. r # 0 /\ r \in 1 .. N /\ K[r] = key
    BY <1>4, <1>5, <1>7, <1>8, <2>3
  <2> QED
    BY <1>1, <1>8, <2>1, <2>4 DEF Chains
<1>9. ASSUME \A n \in 1 .. N : K[n] # key PROVE r = 0
  BY <1>4, <1>5, <1>7, <1>9
<1>10. \A n \in 1 .. N : K[n] = t.node[n].key
  BY DEF KeysOf
<1> QED
  BY <1>8, <1>9, <1>10 DEF NULL

(* luaH_get gives the value of the array or of the node of a key, and nil *)
(* if there is none.                                                      *)
LEMMA Getting ==
  ASSUME NEW t, Sane(t), NEW key \in Places
  PROVE  /\ InArray(t, key) => luaH_get(t, key) = t.array[key[2]]
         /\ ~InArray(t, key) =>
              /\ \A n \in 1 .. sizenode(t) :
                   t.node[n].key = key => luaH_get(t, key) = t.node[n].val
              /\ (\A n \in 1 .. sizenode(t) : t.node[n].key # key) => luaH_get(t, key) = Nil
<1>1. key # Nil
  BY PlacesKeys
<1>2. InArray(t, key) => luaH_get(t, key) = t.array[key[2]]
  BY <1>1 DEF luaH_get
<1>3. ~InArray(t, key) => luaH_get(t, key) = ValueOf(t, NodeOf(t, key))
  BY <1>1 DEF luaH_get
<1>4. ASSUME NEW n \in 1 .. sizenode(t), t.node[n].key = key
      PROVE  ValueOf(t, NodeOf(t, key)) = t.node[n].val
  <2>1. NodeOf(t, key) = n /\ n # NULL
    BY <1>4, NodeIs DEF NULL
  <2> QED
    BY <2>1 DEF ValueOf
<1>5. ASSUME \A n \in 1 .. sizenode(t) : t.node[n].key # key
      PROVE  ValueOf(t, NodeOf(t, key)) = Nil
  BY <1>5, NodeIs DEF ValueOf
<1> QED
  BY <1>2, <1>3, <1>4, <1>5

(* A key is present that has a place; one that is not has no value. *)
LEMMA PresentIs ==
  ASSUME NEW t, Sane(t), NEW key \in Fields
  PROVE  /\ Present(t, key) <=> InArray(t, key) \/ \E n \in 1 .. sizenode(t) : t.node[n].key = key
         /\ ~Present(t, key) => luaH_get(t, key) = Nil
<1>1. key \in Places /\ key # Nil
  BY PlacesKeys, KeyKinds
<1>2. ASSUME NEW n \in 1 .. sizenode(t), t.node[n].key = key PROVE NodeOf(t, key) # NULL
  BY <1>1, <1>2, NodeIs DEF NULL
<1>3. (\A n \in 1 .. sizenode(t) : t.node[n].key # key) => NodeOf(t, key) = NULL
  BY <1>1, NodeIs
<1>4. Present(t, key) <=> InArray(t, key) \/ \E n \in 1 .. sizenode(t) : t.node[n].key = key
  BY <1>1, <1>2, <1>3 DEF Present
<1> QED
  BY <1>1, <1>4, Getting
(* A set of numbers up to b has a greatest one. *)
LEMMA Greatest ==
  ASSUME NEW b \in Nat, NEW S \in SUBSET (0 .. b), S # {}
  PROVE  GreatestOf(S) \in S /\ \A m \in S : m <= GreatestOf(S)
<1> DEFINE T == {b - x : x \in S}
<1>1. T \subseteq Nat /\ T # {}
  <2>1. \A x \in S : b - x \in Nat
    <3>1. \A x \in S : x \in 0 .. b
      OBVIOUS
    <3> QED
      BY <3>1
  <2> QED
    BY <2>1
<1>2. PICK n \in T : \A m \in T : n <= m
  <2> HIDE DEF T
  <2> QED
    BY <1>1, LeastOf
<1>3. PICK x \in S : n = b - x
  BY <1>2
<1>4. \A m \in S : m <= x
  <2> SUFFICES ASSUME NEW m \in S PROVE m <= x
    OBVIOUS
  <2>1. b - m \in T
    OBVIOUS
  <2>2. b - x <= b - m
    BY <1>2, <1>3, <2>1
  <2> QED
    BY <2>2
<1>5. \E y \in S : \A m \in S : m <= y
  BY <1>4
<1>6. GreatestOf(S) = CHOOSE y \in S : \A m \in S : m <= y
  BY DEF GreatestOf
<1> QED
  BY <1>5, <1>6, Zenon

(* getfreepos: the last free node before lastfree, or NULL if no node is *)
(* free.                                                                 *)
LEMMA FreePlace ==
  ASSUME NEW t, Sane(t), NEW n, n = getfreepos(t)
  PROVE  /\ n # NULL => /\ n \in 1 .. sizenode(t) /\ n < t.lastfree /\ t.node[n].key = Nil
                        /\ \A m \in n + 1 .. t.lastfree - 1 : t.node[m].key # Nil
         /\ n = NULL => \A m \in 1 .. t.lastfree - 1 : t.node[m].key # Nil
<1> DEFINE S == {m \in 1 .. t.lastfree - 1 : t.node[m].key = Nil}
<1>1. t.lastfree \in Nat /\ t.lastfree >= 1 /\ t.lastfree <= sizenode(t) + 1 /\ sizenode(t) \in Nat
  BY TableParts DEF Sane
<1>2. S \in SUBSET (0 .. t.lastfree)
  BY <1>1
<1>3. n = GreatestOf(S)
  BY DEF getfreepos
<1>4. ASSUME S # {} PROVE n \in S /\ \A m \in S : m <= n
  <2> HIDE DEF S
  <2> QED
    BY <1>1, <1>2, <1>3, <1>4, Greatest
<1>5. S = {} => n = 0
  BY <1>3 DEF GreatestOf
<1>6. n # 0 => n \in S
  BY <1>4, <1>5
<1>7. ASSUME n # 0, NEW m \in n + 1 .. t.lastfree - 1, t.node[m].key = Nil PROVE FALSE
  <2>1. n \in 1 .. t.lastfree - 1
    BY <1>6, <1>7
  <2>2. m \in 1 .. t.lastfree - 1 /\ ~(m <= n)
    BY <1>1, <1>7, <2>1
  <2>3. m \in S
    BY <1>7, <2>2
  <2> QED
    BY <1>4, <2>2, <2>3
<1>8. ASSUME n = 0, NEW m \in 1 .. t.lastfree - 1, t.node[m].key = Nil PROVE FALSE
  <2>1. m \in S
    BY <1>8
  <2>2. 0 \notin S
    BY <1>1
  <2> QED
    BY <1>4, <1>8, <2>1, <2>2
<1>9. n # 0 => n \in 1 .. sizenode(t) /\ n < t.lastfree /\ t.node[n].key = Nil
  BY <1>1, <1>6
<1> QED
  BY <1>7, <1>8, <1>9 DEF NULL

(* The keys that have a value in the nodes, with it, and all keys. *)
Entries(t) == {<<t.node[n].key, t.node[n].val>> : n \in UsedNodes(t)}
AllKeys(t) == {t.node[n].key : n \in 1 .. sizenode(t)} \ {Nil}

(* A key has a value that is not nil only in its entry. *)
LEMMA EntryGot ==
  ASSUME NEW t, Sane(t), NEW key \in Places, ~InArray(t, key), NEW v, v # Nil
  PROVE  luaH_get(t, key) = v <=> <<key, v>> \in Entries(t)
<1>1. \A n \in 1 .. sizenode(t) : t.node[n].key = key => luaH_get(t, key) = t.node[n].val
  BY Getting
<1>2. (\A n \in 1 .. sizenode(t) : t.node[n].key # key) => luaH_get(t, key) = Nil
  BY Getting
<1>3. ASSUME luaH_get(t, key) = v PROVE <<key, v>> \in Entries(t)
  <2>1. PICK n \in 1 .. sizenode(t) : t.node[n].key = key
    BY <1>2, <1>3
  <2>2. t.node[n].val = v
    BY <1>1, <1>3, <2>1
  <2>3. n \in UsedNodes(t)
    BY <2>2 DEF UsedNodes
  <2> QED
    BY <2>1, <2>2, <2>3 DEF Entries
<1>4. ASSUME <<key, v>> \in Entries(t) PROVE luaH_get(t, key) = v
  <2>1. PICK n \in UsedNodes(t) : t.node[n].key = key /\ t.node[n].val = v
    BY <1>4 DEF Entries
  <2> QED
    BY <1>1, <2>1 DEF UsedNodes
<1> QED
  BY <1>3, <1>4

(* Tables with the same entries in nodes and array give the same values. *)
LEMMA SameView ==
  ASSUME NEW t, Sane(t), NEW u, Sane(u), u.array = t.array, Entries(u) = Entries(t)
  PROVE  \A key \in Places : luaH_get(u, key) = luaH_get(t, key)
<1> SUFFICES ASSUME NEW key \in Places PROVE luaH_get(u, key) = luaH_get(t, key)
  OBVIOUS
<1>1. InArray(u, key) <=> InArray(t, key)
  BY DEF InArray, sizearray
<1>2. CASE InArray(t, key)
  BY <1>1, <1>2, Getting
<1>3. CASE ~InArray(t, key)
  <2>1. \A v : v # Nil => (luaH_get(t, key) = v <=> <<key, v>> \in Entries(t))
    BY <1>3, EntryGot
  <2>2. \A v : v # Nil => (luaH_get(u, key) = v <=> <<key, v>> \in Entries(u))
    BY <1>1, <1>3, EntryGot
  <2>3. ASSUME luaH_get(t, key) # Nil PROVE luaH_get(u, key) = luaH_get(t, key)
    <3>1. <<key, luaH_get(t, key)>> \in Entries(u)
      BY <2>1, <2>3
    <3> QED
      BY <2>2, <2>3, <3>1
  <2>4. ASSUME luaH_get(u, key) # Nil PROVE luaH_get(u, key) = luaH_get(t, key)
    <3>1. <<key, luaH_get(u, key)>> \in Entries(t)
      BY <2>2, <2>4
    <3> QED
      BY <2>1, <2>4, <3>1
  <2> QED
    BY <2>3, <2>4
<1> QED
  BY <1>2, <1>3

(* A table whose nodes have changed is sane if their keys, values and *)
(* chains are.                                                        *)
LEMMA SaneFrom ==
  ASSUME NEW t, Sane(t), ~t.dummy, NEW u \in Table, u.array = t.array, sizenode(u) = sizenode(t),
         u.dummy = t.dummy, u.lastfree \in 1 .. sizenode(t) + 1,
         \A n \in 1 .. sizenode(t) : KeysOf(u)[n] \notin Fields => ValuesOf(u)[n] = Nil,
         \A n \in 1 .. sizenode(t) : KeysOf(u)[n] \in Fields => ~InArray(t, KeysOf(u)[n]),
         \A n \in u.lastfree .. sizenode(t) : KeysOf(u)[n] # Nil,
         Chains(KeysOf(u), Nexts(u), Home(t), sizenode(t))
  PROVE  Sane(u)
<1>1. sizearray(u) = sizearray(t)
  BY DEF sizearray
<1>2. \A key : InArray(u, key) <=> InArray(t, key)
  BY <1>1 DEF InArray
<1>3. Home(u) = Home(t)
  BY DEF Home, mainposition
<1>4. \A n \in 1 .. sizenode(u) : KeysOf(u)[n] = u.node[n].key /\ ValuesOf(u)[n] = u.node[n].val
  BY DEF KeysOf, ValuesOf
<1>5. sizenode(t) \in Nat /\ sizenode(t) > 0 /\ sizearray(t) <= MAX_INT
  BY TableParts DEF Sane
<1>6. sizenode(u) = twoto[CeilLog2(sizenode(u))]
  BY DEF Sane
<1>7. \A i \in 1 .. sizearray(u) : u.array[i] # Nil => Num(i) \in Fields
  BY <1>1 DEF Sane
<1>8. \A n \in u.lastfree .. sizenode(u) : u.node[n].key # Nil
  <2>1. \A n \in u.lastfree .. sizenode(u) : n \in 1 .. sizenode(u)
    BY <1>5
  <2> QED
    BY <1>4, <2>1
<1>9. \A n \in 1 .. sizenode(u) : u.node[n].key \notin Fields => u.node[n].val = Nil
  BY <1>4
<1>10. \A n \in 1 .. sizenode(u) : u.node[n].key \in Fields => ~InArray(u, u.node[n].key)
  BY <1>2, <1>4
<1> QED
  BY <1>1, <1>3, <1>5, <1>6, <1>7, <1>8, <1>9, <1>10 DEF Sane

--------------------------------------------------------------------------------
(* newkey. *)
(* What the nodes of a table have become. *)
Became(u, t, K, V, nx, lf) ==
  /\ u \in Table /\ u.array = t.array /\ u.dummy = t.dummy /\ u.flags = t.flags
  /\ sizenode(u) = sizenode(t) /\ u.lastfree = lf
  /\ KeysOf(u) = K /\ ValuesOf(u) = V /\ Nexts(u) = nx

(* The keys, values and links of a table with other nodes. *)
LEMMA NodesBecame ==
  ASSUME NEW t \in Table, NEW f \in [1 .. sizenode(t) -> Node], NEW lf \in Nat,
         NEW u, u = [t EXCEPT !.node = f, !.lastfree = lf],
         NEW K, K = [n \in 1 .. sizenode(t) |-> f[n].key],
         NEW V, V = [n \in 1 .. sizenode(t) |-> f[n].val],
         NEW nx, nx = [n \in 1 .. sizenode(t) |-> f[n].next]
  PROVE  Became(u, t, K, V, nx, lf)
<1>1. sizenode(t) \in Nat
  BY TableParts
<1>2. /\ u \in Table /\ sizenode(u) = sizenode(t) /\ u.node = f /\ u.lastfree = lf
      /\ u.array = t.array /\ u.dummy = t.dummy /\ u.flags = t.flags
  <2>1. f \in Seq(Node) /\ Len(f) = sizenode(t)
    BY <1>1, LengthOf
  <2> QED
    BY <2>1 DEF Table, sizenode
<1> QED
  BY <1>2 DEF Became, KeysOf, ValuesOf, Nexts

(* The nodes after newkey, the main position being free. *)
LEMMA Taking ==
  ASSUME NEW t \in Table, NEW mp \in 1 .. sizenode(t), NEW key \in Fields, NEW u, u = Take(t, mp, key)
  PROVE  Became(u, t, [KeysOf(t) EXCEPT ![mp] = key], ValuesOf(t), Nexts(t), t.lastfree)
<1> DEFINE f == [t.node EXCEPT ![mp].key = key]
<1>1. /\ sizenode(t) \in Nat /\ t.node \in [1 .. sizenode(t) -> Node] /\ t.lastfree \in Nat
      /\ \A n \in 1 .. sizenode(t) : t.node[n] \in Node
  BY TableParts
<1>2. f \in [1 .. sizenode(t) -> Node]
  <2>1. [t.node[mp] EXCEPT !.key = key] \in Node
    BY <1>1 DEF Node, Key
  <2> QED
    BY <1>1, <2>1
<1>3. u = [t EXCEPT !.node = f, !.lastfree = t.lastfree]
  BY DEF Take, Table
<1>4. \A n \in 1 .. sizenode(t) : /\ f[n].key = IF n = mp THEN key ELSE t.node[n].key
                                  /\ f[n].val = t.node[n].val /\ f[n].next = t.node[n].next
  BY <1>1 DEF Node
<1>5. [KeysOf(t) EXCEPT ![mp] = key] = [n \in 1 .. sizenode(t) |-> f[n].key]
  BY <1>4 DEF KeysOf
<1>6. ValuesOf(t) = [n \in 1 .. sizenode(t) |-> f[n].val]
  BY <1>4 DEF ValuesOf
<1>7. Nexts(t) = [n \in 1 .. sizenode(t) |-> f[n].next]
  BY <1>4 DEF Nexts
<1> HIDE DEF f
<1> QED
  BY <1>1, <1>2, <1>3, <1>5, <1>6, <1>7, NodesBecame

(* The nodes after newkey, the new key put into the chain of its main *)
(* position.                                                          *)
LEMMA ChainedBecame ==
  ASSUME NEW t \in Table, NEW mp \in 1 .. sizenode(t), NEW n \in 1 .. sizenode(t), n # mp,
         NEW key \in Fields, NEW u, u = Take(Chained(t, mp, n), n, key)
  PROVE  Became(u, t, [KeysOf(t) EXCEPT ![n] = key], ValuesOf(t),
                [Nexts(t) EXCEPT ![n] = Nexts(t)[mp], ![mp] = n], n)
<1>0. PICK f : f = [t.node EXCEPT ![n].next = t.node[mp].next, ![mp].next = n, ![n].key = key]
  OBVIOUS
<1>1. /\ sizenode(t) \in Nat /\ t.node \in [1 .. sizenode(t) -> Node] /\ t.lastfree \in Nat
      /\ \A x \in 1 .. sizenode(t) : t.node[x] \in Node
  BY TableParts
<1>2. n \in Nat
  BY <1>1
<1>3. \A x \in 1 .. sizenode(t) :
        f[x] = [key |-> IF x = n THEN key ELSE t.node[x].key, val |-> t.node[x].val,
                next |-> IF x = n THEN t.node[mp].next ELSE IF x = mp THEN n ELSE t.node[x].next]
  BY <1>0, <1>1 DEF Node
<1>b. DOMAIN f = 1 .. sizenode(t) /\ f = [x \in DOMAIN f |-> f[x]]
  BY <1>0, <1>1
<1>a. \A x \in 1 .. sizenode(t) :
        /\ f[x].key = IF x = n THEN key ELSE t.node[x].key
        /\ f[x].val = t.node[x].val
        /\ f[x].next = IF x = n THEN t.node[mp].next ELSE IF x = mp THEN n ELSE t.node[x].next
  BY <1>0, <1>1 DEF Node
<1>4. f \in [1 .. sizenode(t) -> Node]
  <2>2. \A x \in 1 .. sizenode(t) : f[x] \in Node
    <3> SUFFICES ASSUME NEW x \in 1 .. sizenode(t) PROVE f[x] \in Node
      OBVIOUS
    <3>1. t.node[x] \in Node /\ t.node[mp] \in Node /\ key \in Key
      BY <1>1 DEF Key
    <3>2. /\ (IF x = n THEN key ELSE t.node[x].key) \in Key /\ t.node[x].val \in Value
          /\ (IF x = n THEN t.node[mp].next ELSE IF x = mp THEN n ELSE t.node[x].next) \in Nat
      BY <1>2, <3>1 DEF Node
    <3>3. \A a \in Key, b \in Value, c \in Nat : [key |-> a, val |-> b, next |-> c] \in Node
      BY DEF Node
    <3> QED
      BY <1>3, <3>2, <3>3, Zenon
  <2> QED
    BY <1>b, <2>2
<1>5. u = [t EXCEPT !.node = f, !.lastfree = n]
  BY <1>0 DEF Take, Chained, Table
<1>6. [KeysOf(t) EXCEPT ![n] = key] = [x \in 1 .. sizenode(t) |-> f[x].key]
  BY <1>a DEF KeysOf
<1>7. ValuesOf(t) = [x \in 1 .. sizenode(t) |-> f[x].val]
  BY <1>a DEF ValuesOf
<1>8. [Nexts(t) EXCEPT ![n] = Nexts(t)[mp], ![mp] = n] = [x \in 1 .. sizenode(t) |-> f[x].next]
  BY <1>a DEF Nexts
<1> QED
  BY <1>2, <1>4, <1>5, <1>6, <1>7, <1>8, NodesBecame

(* The nodes after newkey, the other key moved away from the main *)
(* position.                                                      *)
LEMMA MovedBecame ==
  ASSUME NEW t \in Table, NEW mp \in 1 .. sizenode(t), NEW n \in 1 .. sizenode(t), n # mp,
         NEW key \in Fields, NEW othern, NEW p \in 1 .. sizenode(t), p = Previous(t, mp, othern),
         p # n, p # mp, NEW u, u = Take(MovedAway(t, mp, n, othern), mp, key)
  PROVE  Became(u, t, [KeysOf(t) EXCEPT ![n] = KeysOf(t)[mp], ![mp] = key],
                [ValuesOf(t) EXCEPT ![n] = ValuesOf(t)[mp], ![mp] = Nil],
                [Nexts(t) EXCEPT ![p] = n, ![n] = Nexts(t)[mp], ![mp] = 0], n)
<1>0. PICK f : f = [t.node EXCEPT ![p].next = n, ![n] = t.node[mp], ![mp] = FreeNode, ![mp].key = key]
  OBVIOUS
<1>1. /\ sizenode(t) \in Nat /\ t.node \in [1 .. sizenode(t) -> Node] /\ t.lastfree \in Nat
      /\ \A x \in 1 .. sizenode(t) : t.node[x] \in Node
  BY TableParts
<1>2. n \in Nat
  BY <1>1
<1>3. \A x \in 1 .. sizenode(t) :
        f[x] = [key |-> IF x = mp THEN key ELSE IF x = n THEN t.node[mp].key ELSE t.node[x].key,
                val |-> IF x = mp THEN Nil ELSE IF x = n THEN t.node[mp].val ELSE t.node[x].val,
                next |-> IF x = mp THEN 0 ELSE IF x = n THEN t.node[mp].next
                         ELSE IF x = p THEN n ELSE t.node[x].next]
  BY <1>0, <1>1 DEF Node, FreeNode, NULL
<1>b. DOMAIN f = 1 .. sizenode(t) /\ f = [x \in DOMAIN f |-> f[x]]
  BY <1>0, <1>1
<1>a. \A x \in 1 .. sizenode(t) :
        /\ f[x].key = IF x = mp THEN key ELSE IF x = n THEN t.node[mp].key ELSE t.node[x].key
        /\ f[x].val = IF x = mp THEN Nil ELSE IF x = n THEN t.node[mp].val ELSE t.node[x].val
        /\ f[x].next = IF x = mp THEN 0 ELSE IF x = n THEN t.node[mp].next
                       ELSE IF x = p THEN n ELSE t.node[x].next
  BY <1>0, <1>1 DEF Node, FreeNode, NULL
<1>4. f \in [1 .. sizenode(t) -> Node]
  <2>2. \A x \in 1 .. sizenode(t) : f[x] \in Node
    <3> SUFFICES ASSUME NEW x \in 1 .. sizenode(t) PROVE f[x] \in Node
      OBVIOUS
    <3>1. t.node[x] \in Node /\ t.node[mp] \in Node /\ key \in Key /\ Nil \in Value /\ 0 \in Nat
      BY <1>1 DEF Key, Value
    <3>2. PICK a, b, c : /\ a = IF x = mp THEN key ELSE IF x = n THEN t.node[mp].key ELSE t.node[x].key
                         /\ b = IF x = mp THEN Nil ELSE IF x = n THEN t.node[mp].val ELSE t.node[x].val
                         /\ c = IF x = mp THEN 0 ELSE IF x = n THEN t.node[mp].next
                                ELSE IF x = p THEN n ELSE t.node[x].next
      OBVIOUS
    <3>3. a \in Key /\ b \in Value /\ c \in Nat
      BY <1>2, <3>1, <3>2 DEF Node
    <3>4. f[x] = [key |-> a, val |-> b, next |-> c]
      BY <1>3, <3>2, Zenon
    <3> QED
      BY <3>3, <3>4 DEF Node
  <2> QED
    BY <1>b, <2>2
<1>5. u = [t EXCEPT !.node = f, !.lastfree = n]
  <2>1. PICK g : g = [t.node EXCEPT ![p].next = n, ![n] = t.node[mp], ![mp] = FreeNode]
    OBVIOUS
  <2>2. MovedAway(t, mp, n, othern) = [t EXCEPT !.node = g, !.lastfree = n]
    BY <2>1 DEF MovedAway, Table
  <2>3. u = [t EXCEPT !.node = [g EXCEPT ![mp].key = key], !.lastfree = n]
    BY <2>2 DEF Take, Table
  <2>4. [g EXCEPT ![mp].key = key] = f
    BY <1>0, <2>1
  <2> QED
    BY <2>3, <2>4
<1>6. [KeysOf(t) EXCEPT ![n] = KeysOf(t)[mp], ![mp] = key] = [x \in 1 .. sizenode(t) |-> f[x].key]
  BY <1>a DEF KeysOf
<1>7. [ValuesOf(t) EXCEPT ![n] = ValuesOf(t)[mp], ![mp] = Nil] = [x \in 1 .. sizenode(t) |-> f[x].val]
  BY <1>a DEF ValuesOf
<1>8. [Nexts(t) EXCEPT ![p] = n, ![n] = Nexts(t)[mp], ![mp] = 0] = [x \in 1 .. sizenode(t) |-> f[x].next]
  BY <1>a DEF Nexts
<1> QED
  BY <1>2, <1>4, <1>5, <1>6, <1>7, <1>8, NodesBecame
(* A node that is reached from another one comes after a node that is. *)
LEMMA ReachesLast ==
  ASSUME NEW N \in Nat, NEW nx \in [1 .. N -> 0 .. N], NEW a \in 1 .. N, NEW b \in 1 .. N,
         Reaches(nx, a, b), a # b
  PROVE  \E p \in 1 .. N : nx[p] = b /\ Reaches(nx, a, p)
<1> SUFFICES ASSUME \A p \in 1 .. N : nx[p] = b => ~Reaches(nx, a, p) PROVE FALSE
  OBVIOUS
<1> DEFINE S == {x \in 1 .. N : Reaches(nx, a, x) /\ x # b}
<1>1. ASSUME NEW x \in S, nx[x] # 0 PROVE nx[x] \in S
  <2>1. x \in 1 .. N /\ Reaches(nx, a, x) /\ nx[x] # b /\ nx[x] \in 0 .. N
    OBVIOUS
  <2>2. nx[x] \in 1 .. N
    BY <1>1, <2>1
  <2>3. Reaches(nx, a, nx[x])
    BY <1>1, <2>1 DEF Reaches, Closed
  <2> QED
    BY <2>1, <2>2, <2>3
<1>2. S \in SUBSET DOMAIN nx /\ a \in S
  BY ReachesItself
<1>3. b \in S
  <2> HIDE DEF S
  <2> QED
    BY <1>1, <1>2 DEF Reaches, Closed
<1> QED
  BY <1>3

(* The loop of newkey that looks for the node before the one to move *)
(* finds it, and it is another node.                                 *)
LEMMA PreviousIs ==
  ASSUME NEW t, Sane(t), NEW mp \in 1 .. sizenode(t), t.node[mp].key \in Fields,
         NEW othern, othern = mainposition(t, t.node[mp].key), othern # mp
  PROVE  LET p == Previous(t, mp, othern)
         IN p \in 1 .. sizenode(t) /\ t.node[p].next = mp /\ p # mp
<1> DEFINE N == sizenode(t)
           nx == Nexts(t)
           K == KeysOf(t)
           wanted == {m \in 1 .. sizenode(t) : t.node[m].next = mp}
           p == Previous(t, mp, othern)
<1>1. t \in Table /\ N > 0 /\ N \in Nat /\ K \in [1 .. N -> Key] /\ Chains(K, nx, Home(t), N)
  BY TableParts DEF Sane
<1>2. nx \in [1 .. N -> 0 .. N] /\ Acyclic(nx)
  BY <1>1 DEF Chains, Linked
<1>3. othern \in 1 .. N /\ Reaches(nx, othern, mp)
  <2>1. K[mp] = t.node[mp].key /\ K[mp] \in Fields /\ K[mp] # Nil /\ Original(K[mp]) = K[mp]
    BY KeyKinds DEF KeysOf
  <2>2. Home(t)[K[mp]] = othern
    BY <2>1 DEF Home
  <2>3. Reaches(nx, othern, mp)
    BY <1>1, <2>1, <2>2 DEF Chains
  <2>4. t.node[mp].key \in Places
    BY PlacesKeys
  <2> HIDE DEF N
  <2> QED
    BY <1>1, <2>3, <2>4, Place DEF N
<1>4. PICK q \in 1 .. N : nx[q] = mp /\ Reaches(nx, othern, q)
  <2> HIDE DEF N, nx, K
  <2>1. N \in Nat /\ nx \in [1 .. N -> 0 .. N] /\ othern \in 1 .. N /\ mp \in 1 .. N
    BY <1>1, <1>2, <1>3 DEF N
  <2>2. Reaches(nx, othern, mp)
    BY <1>3
  <2> QED
    BY <2>1, <2>2, ReachesLast
<1>5. \A m \in 1 .. N : m \in wanted <=> nx[m] = mp
  BY DEF Nexts
<1>6. /\ p \in 0 .. N
      /\ p = 0 => \A w \in wanted : ~Reaches(nx, othern, w)
      /\ p # 0 => p \in wanted
  <2>1. p = Search(t, othern, wanted) /\ wanted \in SUBSET (1 .. N)
    BY DEF Previous
  <2>2. N = sizenode(t) /\ nx = Nexts(t)
    OBVIOUS
  <2> HIDE DEF N, nx, p, wanted, K
  <2>3. N \in Nat /\ othern \in 1 .. N /\ nx \in [1 .. N -> 0 .. N] /\ Acyclic(nx)
    BY <1>1, <1>2, <1>3
  <2>4. wanted \in SUBSET (1 .. N) /\ p = Search(t, othern, wanted)
    BY <2>1
  <2> QED
    BY <2>2, <2>3, <2>4, Searching
<1>7. p \in 1 .. N /\ nx[p] = mp
  <2>1. q \in wanted
    BY <1>4, <1>5
  <2>2. p # 0
    BY <1>4, <1>6, <2>1
  <2> HIDE DEF p, wanted
  <2> QED
    BY <1>5, <1>6, <2>2
<1>8. p # mp
  <2>1. PICK d \in [1 .. N -> Nat] : \A x \in 1 .. N : nx[x] # 0 => d[nx[x]] < d[x]
    BY <1>2 DEF Acyclic
  <2>2. d[mp] \in Nat /\ mp # 0
    OBVIOUS
  <2> HIDE DEF p
  <2> QED
    BY <1>7, <2>1, <2>2
<1> HIDE DEF p
<1>9. t.node[p].next = mp
  BY <1>7 DEF Nexts
<1> QED
  BY <1>7, <1>8, <1>9 DEF p

(* A new key gets a node without a value, and the others keep theirs. *)
Inserting(t, u, key) ==
  /\ Sane(u) /\ u.array = t.array /\ sizenode(u) = sizenode(t) /\ u.dummy = t.dummy /\ u.flags = t.flags
  /\ \E n \in 1 .. sizenode(u) : u.node[n].key = key
  /\ AllKeys(u) \subseteq AllKeys(t) \cup {key} /\ Entries(u) = Entries(t)

(* Entries and keys of a table, from its keys and values. *)
LEMMA EntriesOf ==
  ASSUME NEW t \in Table
  PROVE  /\ Entries(t) = {<<KeysOf(t)[n], ValuesOf(t)[n]>> : n \in {m \in 1 .. sizenode(t) : ValuesOf(t)[m] # Nil}}
         /\ AllKeys(t) = {KeysOf(t)[n] : n \in 1 .. sizenode(t)} \ {Nil}
<1>1. \A n \in 1 .. sizenode(t) : KeysOf(t)[n] = t.node[n].key /\ ValuesOf(t)[n] = t.node[n].val
  BY NodeFacts
<1>2. UsedNodes(t) = {m \in 1 .. sizenode(t) : ValuesOf(t)[m] # Nil}
  BY <1>1 DEF UsedNodes
<1>3. UsedNodes(t) \subseteq 1 .. sizenode(t)
  BY DEF UsedNodes
<1> QED
  BY <1>1, <1>2, <1>3 DEF Entries, AllKeys
(* The same keys with the same values, wherever they are. *)
SameEntries(K, V, J, W, N) ==
  /\ \A x \in 1 .. N : V[x] # Nil => \E y \in 1 .. N : J[y] = K[x] /\ W[y] = V[x]
  /\ \A y \in 1 .. N : W[y] # Nil => \E x \in 1 .. N : K[x] = J[y] /\ V[x] = W[y]

(* What has to hold for the nodes, that newkey has inserted its key and *)
(* kept the others.                                                     *)
LEMMA InsertedFrom ==
  ASSUME NEW t, Sane(t), ~t.dummy, NEW key \in Fields, ~Present(t, key), NEW N, N = sizenode(t),
         NEW u, NEW J, NEW W, NEW mx, NEW lf, Became(u, t, J, W, mx, lf), lf \in 1 .. N + 1,
         Chains(J, mx, Home(t), N),
         \A x \in 1 .. N : J[x] \notin Fields => W[x] = Nil,
         \A x \in 1 .. N : J[x] \in {key, Nil} \/ \E y \in 1 .. N : J[x] = KeysOf(t)[y],
         \A x \in lf .. N : J[x] # Nil,
         \E x \in 1 .. N : J[x] = key,
         SameEntries(KeysOf(t), ValuesOf(t), J, W, N)
  PROVE  Inserting(t, u, key)
<1>1. /\ t \in Table /\ u \in Table /\ u.array = t.array /\ u.dummy = t.dummy /\ u.flags = t.flags
      /\ sizenode(u) = N /\ u.lastfree = lf /\ KeysOf(u) = J /\ ValuesOf(u) = W /\ Nexts(u) = mx
  BY DEF Became, Sane
<1>2. ~InArray(t, key) /\ key # Nil
  BY PresentIs, KeyKinds
<1>3. \A y \in 1 .. N : KeysOf(t)[y] \in Fields => ~InArray(t, KeysOf(t)[y])
  <2>1. \A y \in 1 .. N : KeysOf(t)[y] = t.node[y].key
    BY <1>1, NodeFacts
  <2> QED
    BY <2>1 DEF Sane
<1>4. \A x \in 1 .. N : J[x] \in Fields => ~InArray(t, J[x])
  BY <1>2, <1>3, KeyKinds
<1>5. Sane(u)
  BY <1>1, <1>4, SaneFrom
<1>6. \E n \in 1 .. sizenode(u) : u.node[n].key = key
  <2>1. \A x \in 1 .. N : J[x] = u.node[x].key
    BY <1>1, NodeFacts
  <2> QED
    BY <1>1, <2>1
<1>7. AllKeys(u) \subseteq AllKeys(t) \cup {key}
  <2>1. AllKeys(u) = {J[x] : x \in 1 .. N} \ {Nil}
    BY <1>1, EntriesOf
  <2>2. AllKeys(t) = {KeysOf(t)[x] : x \in 1 .. N} \ {Nil}
    BY <1>1, EntriesOf
  <2> QED
    BY <2>1, <2>2
<1>8. Entries(u) = Entries(t)
  <2>1. Entries(u) = {<<J[x], W[x]>> : x \in {m \in 1 .. N : W[m] # Nil}}
    BY <1>1, EntriesOf
  <2>2. Entries(t) = {<<KeysOf(t)[x], ValuesOf(t)[x]>> : x \in {m \in 1 .. N : ValuesOf(t)[m] # Nil}}
    BY <1>1, EntriesOf
  <2>3. ASSUME NEW e \in Entries(u) PROVE e \in Entries(t)
    <3>1. PICK x \in 1 .. N : W[x] # Nil /\ e = <<J[x], W[x]>>
      BY <2>1, <2>3
    <3>2. PICK y \in 1 .. N : KeysOf(t)[y] = J[x] /\ ValuesOf(t)[y] = W[x]
      BY <3>1 DEF SameEntries
    <3> QED
      BY <2>2, <3>1, <3>2
  <2>4. ASSUME NEW e \in Entries(t) PROVE e \in Entries(u)
    <3>1. PICK x \in 1 .. N : ValuesOf(t)[x] # Nil /\ e = <<KeysOf(t)[x], ValuesOf(t)[x]>>
      BY <2>2, <2>4
    <3>2. PICK y \in 1 .. N : J[y] = KeysOf(t)[x] /\ W[y] = ValuesOf(t)[x]
      BY <3>1 DEF SameEntries
    <3> QED
      BY <2>1, <3>1, <3>2
  <2> QED
    BY <2>3, <2>4
<1> QED
  BY <1>1, <1>5, <1>6, <1>7, <1>8 DEF Inserting

(* newkey inserts its key and keeps the other entries, in each of its *)
(* three ways.                                                        *)
LEMMA KeyInserted ==
  ASSUME NEW t, Sane(t), ~t.dummy, NEW key \in Fields, ~Present(t, key),
         NEW mp, mp = mainposition(t, key), NEW n, n = getfreepos(t), IsFree(t, mp) \/ n # NULL,
         NEW u, u = Inserted(t, key, mp, n)
  PROVE  Inserting(t, u, key)
<1>1. PICK N, K, V, nx, h : /\ N = sizenode(t) /\ K = KeysOf(t) /\ V = ValuesOf(t)
                            /\ nx = Nexts(t) /\ h = Home(t)
  OBVIOUS
<1>2. /\ t \in Table /\ N \in Nat /\ N > 0 /\ K \in [1 .. N -> Key] /\ V \in [1 .. N -> Value]
      /\ Chains(K, nx, h, N) /\ t.lastfree \in 1 .. N + 1
  BY <1>1, TableParts DEF Sane
<1>3. \A x \in 1 .. N : K[x] = t.node[x].key /\ V[x] = t.node[x].val /\ nx[x] = t.node[x].next
  BY <1>1, <1>2, NodeFacts
<1>4. mp \in 1 .. N /\ h[key] = mp /\ key # Nil
  BY <1>1, <1>2, PlacesKeys, Place, KeyKinds DEF Home
<1>5. /\ \A x \in 1 .. N : K[x] # key
      /\ \A x \in 1 .. N : K[x] \notin Fields => V[x] = Nil
      /\ \A x \in t.lastfree .. N : K[x] # Nil
  <2>1. \A x \in 1 .. N : K[x] # key
    BY <1>1, <1>3, PresentIs
  <2>2. \A x \in 1 .. N : K[x] \notin Fields => V[x] = Nil
    BY <1>1, <1>3 DEF Sane
  <2>3. ASSUME NEW x \in t.lastfree .. N PROVE K[x] # Nil
    <3>1. x \in 1 .. N
      BY <1>2
    <3> QED
      BY <1>1, <1>3, <3>1 DEF Sane
  <2> QED
    BY <2>1, <2>2, <2>3
<1>6. CASE IsFree(t, mp)
  <2>1. u = Take(t, mp, key) /\ V[mp] = Nil
    BY <1>3, <1>4, <1>6 DEF Inserted, IsFree
  <2>2. PICK J : J = [K EXCEPT ![mp] = key]
    OBVIOUS
  <2>3. Became(u, t, J, V, nx, t.lastfree)
    BY <1>1, <1>2, <1>4, <2>1, <2>2, Taking
  <2>4. Chains(J, nx, h, N)
    BY <1>2, <1>4, <1>5, <2>2, ChainsTaken
  <2>5. J[mp] = key /\ \A x \in 1 .. N : x # mp => J[x] = K[x]
    BY <1>2, <1>4, <2>2
  <2>6. SameEntries(K, V, J, V, N)
    BY <2>1, <2>5 DEF SameEntries
  <2>7. /\ \A x \in 1 .. N : J[x] \notin Fields => V[x] = Nil
        /\ \A x \in 1 .. N : J[x] \in {key, Nil} \/ \E y \in 1 .. N : J[x] = K[y]
        /\ \E x \in 1 .. N : J[x] = key
    BY <1>4, <1>5, <2>5
  <2>8. \A x \in t.lastfree .. N : J[x] # Nil
    <3>1. \A x \in t.lastfree .. N : x \in 1 .. N
      BY <1>2
    <3> QED
      BY <1>4, <1>5, <2>5, <3>1
  <2> QED
    BY <1>1, <1>2, <2>3, <2>4, <2>6, <2>7, <2>8, InsertedFrom
<1>7. CASE ~IsFree(t, mp)
  <2>1. /\ n \in 1 .. N /\ n < t.lastfree /\ K[n] = Nil /\ V[n] = Nil /\ V[mp] # Nil
        /\ K[mp] \in Fields /\ n # mp /\ K[mp] # Nil
    <3>1. n \in 1 .. N /\ n < t.lastfree /\ K[n] = Nil
      BY <1>1, <1>3, <1>7, FreePlace
    <3>2. V[mp] # Nil
      BY <1>3, <1>4, <1>7 DEF IsFree
    <3> QED
      BY <1>4, <1>5, <3>1, <3>2, KeyKinds
  <2>2. ASSUME NEW x \in n .. N, x # n PROVE K[x] # Nil /\ x \in 1 .. N
    <3>1. x \in 1 .. N
      BY <2>1
    <3>2. CASE x \in n + 1 .. t.lastfree - 1
      <4>1. t.node[x].key # Nil
        BY <1>7, <3>2, FreePlace
      <4> QED
        BY <1>3, <3>1, <4>1
    <3>3. CASE x \notin n + 1 .. t.lastfree - 1
      <4>1. x \in t.lastfree .. N
        BY <1>2, <2>1, <2>2, <3>3
      <4> QED
        BY <1>5, <3>1, <4>1
    <3> QED
      BY <3>2, <3>3
  <2>3. PICK othern : othern = mainposition(t, t.node[mp].key)
    OBVIOUS
  <2>4. u = Collides(t, key, mp, n, othern) /\ h[K[mp]] = othern
    BY <1>1, <1>3, <1>4, <1>7, <2>1, <2>3 DEF Inserted, Home
  <2>5. n \in 1 .. N + 1
    BY <1>2, <2>1
  <2>6. CASE othern = mp
    <3>1. u = Take(Chained(t, mp, n), n, key)
      BY <2>4, <2>6 DEF Collides
    <3>2. PICK J : J = [K EXCEPT ![n] = key]
      OBVIOUS
    <3>3. PICK mx : mx = [nx EXCEPT ![n] = nx[mp], ![mp] = n]
      OBVIOUS
    <3>4. Became(u, t, J, V, mx, n)
      BY <1>1, <1>2, <1>4, <2>1, <3>1, <3>2, <3>3, ChainedBecame
    <3>5. Chains(J, mx, h, N)
      BY <1>2, <1>4, <1>5, <2>1, <2>4, <2>6, <3>2, <3>3, ChainsLinked
    <3>6. J[n] = key /\ \A x \in 1 .. N : x # n => J[x] = K[x]
      BY <1>2, <2>1, <3>2
    <3>7. SameEntries(K, V, J, V, N)
      BY <2>1, <3>6 DEF SameEntries
    <3>8. /\ \A x \in 1 .. N : J[x] \notin Fields => V[x] = Nil
          /\ \A x \in 1 .. N : J[x] \in {key, Nil} \/ \E y \in 1 .. N : J[x] = K[y]
          /\ \E x \in 1 .. N : J[x] = key
      BY <1>5, <2>1, <3>6
    <3>9. \A x \in n .. N : J[x] # Nil
      BY <1>4, <2>2, <3>6
    <3> QED
      BY <1>1, <1>2, <2>5, <3>4, <3>5, <3>7, <3>8, <3>9, InsertedFrom
  <2>7. CASE othern # mp
    <3>1. u = Take(MovedAway(t, mp, n, othern), mp, key)
      BY <2>4, <2>7 DEF Collides
    <3>2. PICK p : p = Previous(t, mp, othern)
      OBVIOUS
    <3>3. p \in 1 .. N /\ nx[p] = mp /\ p # mp
      BY <1>1, <1>3, <1>4, <2>1, <2>3, <2>7, <3>2, PreviousIs
    <3>4. p # n
      BY <1>4, <2>1, <3>3, <1>2 DEF Chains
    <3>5. PICK J : J = [K EXCEPT ![n] = K[mp], ![mp] = key]
      OBVIOUS
    <3>6. PICK mx : mx = [nx EXCEPT ![p] = n, ![n] = nx[mp], ![mp] = 0]
      OBVIOUS
    <3>7. PICK W : W = [V EXCEPT ![n] = V[mp], ![mp] = Nil]
      OBVIOUS
    <3>8. Became(u, t, J, W, mx, n)
      BY <1>1, <1>2, <1>4, <2>1, <3>1, <3>2, <3>3, <3>4, <3>5, <3>6, <3>7, MovedBecame
    <3>9. Chains(J, mx, h, N)
      BY <1>2, <1>4, <1>5, <2>1, <2>4, <2>7, <3>3, <3>5, <3>6, ChainsMoved
    <3>10. /\ J[n] = K[mp] /\ J[mp] = key /\ \A x \in 1 .. N : x # n /\ x # mp => J[x] = K[x]
           /\ W[n] = V[mp] /\ W[mp] = Nil /\ \A x \in 1 .. N : x # n /\ x # mp => W[x] = V[x]
      BY <1>2, <1>4, <2>1, <3>5, <3>7
    <3>11. SameEntries(K, V, J, W, N)
      BY <1>4, <2>1, <3>10 DEF SameEntries
    <3>12. /\ \A x \in 1 .. N : J[x] \notin Fields => W[x] = Nil
           /\ \A x \in 1 .. N : J[x] \in {key, Nil} \/ \E y \in 1 .. N : J[x] = K[y]
           /\ \E x \in 1 .. N : J[x] = key
      BY <1>4, <1>5, <2>1, <3>10
    <3>13. \A x \in n .. N : J[x] # Nil
      BY <1>4, <2>1, <2>2, <3>10
    <3> QED
      BY <1>1, <1>2, <2>5, <3>8, <3>9, <3>11, <3>12, <3>13, InsertedFrom
  <2> QED
    BY <2>6, <2>7
<1> QED
  BY <1>6, <1>7

--------------------------------------------------------------------------------
(* Values, and places. *)
(* A table with a place for a key. *)
Placing(t, u, key) ==
  /\ Sane(u) /\ u.array = t.array /\ sizenode(u) = sizenode(t) /\ u.dummy = t.dummy /\ u.flags = t.flags
  /\ Present(u, key) /\ AllKeys(u) \subseteq AllKeys(t) \cup {key} /\ Entries(u) = Entries(t)

(* luaH_set and newkey place a key, if no rehash is needed. *)
LEMMA KeyPlaced ==
  ASSUME NEW t, Sane(t), NEW key \in Fields, Present(t, key) \/ ~Crowded(t, key),
         NEW u, u = Placed(t, key)
  PROVE  Placing(t, u, key)
<1>1. CASE Present(t, key)
  <2>1. u = t
    BY <1>1 DEF Placed
  <2> QED
    BY <1>1, <2>1 DEF Placing
<1>2. CASE ~Present(t, key)
  <2>1. PICK mp, n : mp = mainposition(t, key) /\ n = getfreepos(t)
    OBVIOUS
  <2>2. u = Inserted(t, key, mp, n)
    BY <1>2, <2>1 DEF Placed
  <2>3. IsFree(t, mp) \/ n # NULL
    BY <1>2, <2>1 DEF Crowded
  <2>4. ~t.dummy
    <3>1. t.dummy => n = NULL
      <4> SUFFICES ASSUME t.dummy, n # NULL PROVE FALSE
        OBVIOUS
      <4>1. n \in 1 .. sizenode(t) /\ n < t.lastfree /\ t.lastfree = 1
        BY <2>1, FreePlace DEF Sane
      <4> QED
        BY <4>1
    <3> QED
      BY <2>3, <3>1 DEF IsFree
  <2>5. Inserting(t, u, key)
    BY <1>2, <2>1, <2>2, <2>3, <2>4, KeyInserted
  <2> QED
    BY <2>5, PresentIs DEF Inserting, Placing
<1> QED
  BY <1>1, <1>2

(* Keys that are numbers, and the keys of the array. *)
LEMMA KeysNumbered ==
  /\ \A key \in Fields : IsNumber(key) => key[2] \in Int /\ key = Num(key[2])
  /\ \A i : Num(i)[2] = i /\ IsNumber(Num(i)) /\ arrayindex(Num(i)) = i
  /\ \A key \in Fields : \A t \in Table : InArray(t, key) => IsNumber(key) /\ key = Num(key[2]) /\ key[2] \in 1 .. sizearray(t)
<1>1. \A key \in Fields : IsNumber(key) => key[2] \in Int /\ key = Num(key[2])
  BY SizesAssumption, FieldsAssumption
<1>2. \A i : Num(i)[2] = i /\ IsNumber(Num(i)) /\ arrayindex(Num(i)) = i
  BY DEF Num, IsNumber, arrayindex
<1>3. ASSUME NEW key \in Fields, NEW t \in Table, InArray(t, key)
      PROVE  IsNumber(key) /\ key = Num(key[2]) /\ key[2] \in 1 .. sizearray(t)
  <2>1. IsNumber(key)
    BY <1>3, TableParts DEF InArray, arrayindex
  <2> QED
    BY <1>1, <1>3, <2>1 DEF InArray, arrayindex
<1> QED
  BY <1>1, <1>2, <1>3

(* A table in which a key gets a value. *)
Storing(t, u, key, val) ==
  /\ Sane(u) /\ sizearray(u) = sizearray(t) /\ sizenode(u) = sizenode(t)
  /\ u.dummy = t.dummy /\ u.flags = t.flags /\ u.lastfree = t.lastfree
  /\ KeysOf(u) = KeysOf(t) /\ Nexts(u) = Nexts(t)
  /\ \A i \in 1 .. sizearray(t) + sizenode(t) :
       /\ EntryKey(u, i) = EntryKey(t, i)
       /\ EntryValue(u, i) = IF EntryKey(t, i) = key THEN val ELSE EntryValue(t, i)

(* A value is stored at the place of its key and nothing else is changed. *)
LEMMA ValueStored ==
  ASSUME NEW t, Sane(t), NEW key \in Fields, Present(t, key), NEW val \in Value,
         NEW u, u = Store(t, key, val)
  PROVE  Storing(t, u, key, val)
<1>1. /\ t \in Table /\ sizearray(t) \in Nat /\ t.array \in [1 .. sizearray(t) -> Value]
      /\ sizenode(t) \in Nat /\ t.node \in [1 .. sizenode(t) -> Node]
      /\ t.array \in Seq(Value) /\ t.node \in Seq(Node)
  BY TableParts DEF Sane, Table
<1>2. CASE InArray(t, key)
  <2>1. key = Num(key[2]) /\ key[2] \in 1 .. sizearray(t)
    BY <1>1, <1>2, KeysNumbered
  <2>2. PICK a : a = [t.array EXCEPT ![key[2]] = val]
    OBVIOUS
  <2>3. u = [t EXCEPT !.array = a]
    BY <1>2, <2>2 DEF Store
  <2>4. a \in [1 .. sizearray(t) -> Value] /\ \A i \in 1 .. sizearray(t) : a[i] = IF i = key[2] THEN val ELSE t.array[i]
    BY <1>1, <2>1, <2>2
  <2>5. a \in Seq(Value) /\ Len(a) = sizearray(t)
    BY <1>1, <2>4, LengthOf
  <2>6. /\ u \in Table /\ u.array = a /\ u.node = t.node /\ u.dummy = t.dummy /\ u.flags = t.flags
        /\ u.lastfree = t.lastfree
    BY <1>1, <2>3, <2>5 DEF Table
  <2>7. /\ sizearray(u) = sizearray(t) /\ sizenode(u) = sizenode(t) /\ KeysOf(u) = KeysOf(t)
        /\ Nexts(u) = Nexts(t) /\ Home(u) = Home(t)
    BY <2>5, <2>6 DEF sizearray, sizenode, KeysOf, Nexts, Home, mainposition
  <2>8. \A i \in 1 .. sizearray(u) : u.array[i] # Nil => Num(i) \in Fields
    BY <2>1, <2>4, <2>6, <2>7 DEF Sane
  <2>9. Sane(u)
    <3>1. \A k : InArray(u, k) <=> InArray(t, k)
      BY <2>7 DEF InArray
    <3>2. \A n \in 1 .. sizenode(u) : u.node[n].key \in Fields => ~InArray(u, u.node[n].key)
      BY <2>6, <2>7, <3>1 DEF Sane
    <3>3. Chains(KeysOf(u), Nexts(u), Home(u), sizenode(u))
      BY <2>7 DEF Sane
    <3> QED
      BY <2>6, <2>7, <2>8, <3>2, <3>3 DEF Sane
  <2>10. ASSUME NEW i \in 1 .. sizearray(t) + sizenode(t)
         PROVE  /\ EntryKey(u, i) = EntryKey(t, i)
                /\ EntryValue(u, i) = IF EntryKey(t, i) = key THEN val ELSE EntryValue(t, i)
    <3>1. CASE i <= sizearray(t)
      <4>1. i \in 1 .. sizearray(t)
        BY <1>1, <3>1
      <4>2. EntryKey(u, i) = Num(i) /\ EntryKey(t, i) = Num(i) /\ EntryValue(u, i) = a[i] /\ EntryValue(t, i) = t.array[i]
        BY <2>6, <2>7, <3>1 DEF EntryKey, EntryValue
      <4>3. Num(i) = key <=> i = key[2]
        BY <2>1, KeysNumbered
      <4> QED
        BY <2>4, <4>1, <4>2, <4>3
    <3>2. CASE ~(i <= sizearray(t))
      <4>1. PICK n \in 1 .. sizenode(t) : n = i - sizearray(t)
        BY <1>1, <3>2
      <4>2. /\ EntryKey(u, i) = t.node[n].key /\ EntryKey(t, i) = t.node[n].key
            /\ EntryValue(u, i) = t.node[n].val /\ EntryValue(t, i) = t.node[n].val
        BY <2>6, <2>7, <3>2, <4>1 DEF EntryKey, EntryValue
      <4>3. t.node[n].key # key
        BY <1>2 DEF Sane
      <4> QED
        BY <4>2, <4>3
    <3> QED
      BY <3>1, <3>2
  <2> QED
    BY <2>6, <2>7, <2>9, <2>10 DEF Storing
<1>3. CASE ~InArray(t, key)
  <2>1. PICK m \in 1 .. sizenode(t) : t.node[m].key = key
    BY <1>3, PresentIs
  <2>2. NodeOf(t, key) = m
    BY <2>1, NodeIs, PlacesKeys
  <2>3. PICK f : f = [t.node EXCEPT ![m].val = val]
    OBVIOUS
  <2>4. u = [t EXCEPT !.node = f]
    BY <1>3, <2>2, <2>3 DEF Store
  <2>5. /\ f \in [1 .. sizenode(t) -> Node]
        /\ \A n \in 1 .. sizenode(t) : /\ f[n].key = t.node[n].key /\ f[n].next = t.node[n].next
                                       /\ f[n].val = IF n = m THEN val ELSE t.node[n].val
    <3>1. [t.node[m] EXCEPT !.val = val] \in Node
      BY <1>1 DEF Node
    <3>2. \A n \in 1 .. sizenode(t) : t.node[n] \in Node
      BY <1>1
    <3> QED
      BY <1>1, <2>3, <3>1, <3>2 DEF Node
  <2>6. f \in Seq(Node) /\ Len(f) = sizenode(t)
    BY <1>1, <2>5, LengthOf
  <2>7. /\ u \in Table /\ u.array = t.array /\ u.node = f /\ u.dummy = t.dummy /\ u.flags = t.flags
        /\ u.lastfree = t.lastfree
    BY <1>1, <2>4, <2>6 DEF Table
  <2>8. /\ sizearray(u) = sizearray(t) /\ sizenode(u) = sizenode(t) /\ KeysOf(u) = KeysOf(t)
        /\ Nexts(u) = Nexts(t)
    BY <2>5, <2>6, <2>7 DEF sizearray, sizenode, KeysOf, Nexts
  <2>9. ~t.dummy
    <3> SUFFICES ASSUME t.dummy PROVE FALSE
      OBVIOUS
    <3>1. t.node[m] = FreeNode
      <4>1. t.node = <<FreeNode>> /\ m \in DOMAIN t.node
        BY <1>1 DEF Sane
      <4> QED
        BY <4>1
    <3> QED
      BY <2>1, <3>1, KeyKinds DEF FreeNode
  <2>10. ValuesOf(u) = [n \in 1 .. sizenode(t) |-> IF n = m THEN val ELSE t.node[n].val]
    BY <2>5, <2>7, <2>8 DEF ValuesOf
  <2>11. \A n \in 1 .. sizenode(t) : KeysOf(t)[n] = t.node[n].key
    BY <1>1, NodeFacts
  <2>12. Sane(u)
    <3>1. \A n \in 1 .. sizenode(t) : KeysOf(u)[n] \notin Fields => ValuesOf(u)[n] = Nil
      BY <2>1, <2>8, <2>10, <2>11 DEF Sane
    <3>2. \A n \in 1 .. sizenode(t) : KeysOf(u)[n] \in Fields => ~InArray(t, KeysOf(u)[n])
      BY <2>8, <2>11 DEF Sane
    <3>3. \A n \in u.lastfree .. sizenode(t) : KeysOf(u)[n] # Nil
      <4>1. \A n \in u.lastfree .. sizenode(t) : n \in 1 .. sizenode(t) /\ t.node[n].key # Nil
        BY <1>1, <2>7, <2>9 DEF Sane
      <4> QED
        BY <2>8, <2>11, <4>1
    <3>4. Chains(KeysOf(u), Nexts(u), Home(t), sizenode(t)) /\ u.lastfree \in 1 .. sizenode(t) + 1
      BY <2>7, <2>8 DEF Sane
    <3> QED
      BY <2>7, <2>8, <2>9, <3>1, <3>2, <3>3, <3>4, SaneFrom
  <2>13. ASSUME NEW i \in 1 .. sizearray(t) + sizenode(t)
         PROVE  /\ EntryKey(u, i) = EntryKey(t, i)
                /\ EntryValue(u, i) = IF EntryKey(t, i) = key THEN val ELSE EntryValue(t, i)
    <3>1. CASE i <= sizearray(t)
      <4>1. i \in 1 .. sizearray(t)
        BY <1>1, <3>1
      <4>2. EntryKey(u, i) = Num(i) /\ EntryKey(t, i) = Num(i) /\ EntryValue(u, i) = EntryValue(t, i)
        BY <2>7, <2>8, <3>1 DEF EntryKey, EntryValue
      <4>3. Num(i) # key
        BY <1>3, <4>1, KeysNumbered DEF InArray
      <4> QED
        BY <4>2, <4>3
    <3>2. CASE ~(i <= sizearray(t))
      <4>1. PICK n \in 1 .. sizenode(t) : n = i - sizearray(t)
        BY <1>1, <3>2
      <4>2. /\ EntryKey(u, i) = f[n].key /\ EntryKey(t, i) = t.node[n].key
            /\ EntryValue(u, i) = f[n].val /\ EntryValue(t, i) = t.node[n].val
        BY <2>7, <2>8, <3>2, <4>1 DEF EntryKey, EntryValue
      <4>3. t.node[n].key = key <=> n = m
        BY <2>1, <2>11 DEF Sane, Chains
      <4> QED
        BY <2>5, <4>2, <4>3
    <3> QED
      BY <3>1, <3>2
  <2> QED
    BY <2>7, <2>8, <2>12, <2>13 DEF Storing
<1> QED
  BY <1>2, <1>3
PlacesOf(t) == 1 .. sizearray(t) + sizenode(t)

(* luaH_get gives each key the value of its place; a field has one place *)
(* at most.                                                              *)
LEMMA PlaceGot ==
  ASSUME NEW t, Sane(t)
  PROVE  /\ \A i \in PlacesOf(t) : EntryKey(t, i) \in Places => luaH_get(t, EntryKey(t, i)) = EntryValue(t, i)
         /\ \A key \in Places : (\A i \in PlacesOf(t) : EntryKey(t, i) # key) => luaH_get(t, key) = Nil
         /\ \A key \in Fields : Present(t, key) <=> \E i \in PlacesOf(t) : EntryKey(t, i) = key
         /\ \A i, j \in PlacesOf(t) : EntryKey(t, i) \in Fields /\ EntryKey(t, i) = EntryKey(t, j) => i = j
         /\ \A i \in PlacesOf(t) : EntryValue(t, i) # Nil => EntryKey(t, i) \in Fields
<1>1. /\ t \in Table /\ sizearray(t) \in Nat /\ sizenode(t) \in Nat
  BY TableParts DEF Sane
<1>2. \A i \in PlacesOf(t) : i <= sizearray(t) => i \in 1 .. sizearray(t) /\ EntryKey(t, i) = Num(i) /\ EntryValue(t, i) = t.array[i]
  BY <1>1 DEF PlacesOf, EntryKey, EntryValue
<1>3. \A i \in PlacesOf(t) : ~(i <= sizearray(t)) =>
        \E n \in 1 .. sizenode(t) : i = sizearray(t) + n /\ EntryKey(t, i) = t.node[n].key /\ EntryValue(t, i) = t.node[n].val
  <2> SUFFICES ASSUME NEW i \in PlacesOf(t), ~(i <= sizearray(t))
               PROVE  \E n \in 1 .. sizenode(t) : i = sizearray(t) + n /\ EntryKey(t, i) = t.node[n].key /\ EntryValue(t, i) = t.node[n].val
    OBVIOUS
  <2>1. i - sizearray(t) \in 1 .. sizenode(t) /\ i = sizearray(t) + (i - sizearray(t))
    BY <1>1 DEF PlacesOf
  <2> QED
    BY <2>1 DEF EntryKey, EntryValue
<1>4. \A i \in 1 .. sizearray(t) : i \in PlacesOf(t) /\ i <= sizearray(t)
  BY <1>1 DEF PlacesOf
<1>5. \A n \in 1 .. sizenode(t) : sizearray(t) + n \in PlacesOf(t) /\ EntryKey(t, sizearray(t) + n) = t.node[n].key
  <2> SUFFICES ASSUME NEW n \in 1 .. sizenode(t)
               PROVE  sizearray(t) + n \in PlacesOf(t) /\ EntryKey(t, sizearray(t) + n) = t.node[n].key
    OBVIOUS
  <2>1. sizearray(t) + n \in PlacesOf(t) /\ ~(sizearray(t) + n <= sizearray(t)) /\ (sizearray(t) + n) - sizearray(t) = n
    BY <1>1 DEF PlacesOf
  <2> QED
    BY <2>1 DEF EntryKey
<1>6. ASSUME NEW i \in PlacesOf(t), EntryKey(t, i) \in Places
      PROVE  luaH_get(t, EntryKey(t, i)) = EntryValue(t, i)
  <2>1. CASE i <= sizearray(t)
    <3>1. InArray(t, Num(i)) /\ Num(i)[2] = i
      BY <1>2, <2>1, KeysNumbered DEF InArray
    <3>2. luaH_get(t, Num(i)) = t.array[Num(i)[2]]
      BY <1>2, <1>6, <2>1, <3>1, Getting
    <3> QED
      BY <1>2, <2>1, <3>1, <3>2
  <2>2. CASE ~(i <= sizearray(t))
    <3>1. PICK n \in 1 .. sizenode(t) : EntryKey(t, i) = t.node[n].key /\ EntryValue(t, i) = t.node[n].val
      BY <1>3, <2>2
    <3>2. t.node[n].key \in Fields
      <4>1. t.node[n].key \in Key
        BY <1>1, TableParts DEF Node
      <4> QED
        BY <1>6, <3>1, <4>1, PlacesKeys DEF Key
    <3>3. ~InArray(t, t.node[n].key)
      BY <3>2 DEF Sane
    <3> QED
      BY <1>6, <3>1, <3>3, Getting
  <2> QED
    BY <2>1, <2>2
<1>7. ASSUME NEW key \in Places, \A i \in PlacesOf(t) : EntryKey(t, i) # key PROVE luaH_get(t, key) = Nil
  <2>1. ~InArray(t, key)
    <3> SUFFICES ASSUME InArray(t, key) PROVE FALSE
      OBVIOUS
    <3>1. IsNumber(key) /\ key[2] \in 1 .. sizearray(t)
      BY <1>1 DEF InArray, arrayindex
    <3>2. key = Num(key[2])
      BY <3>1, FieldsAssumption, KeysNumbered DEF Places, Event, Str, IsNumber
    <3> QED
      BY <1>2, <1>4, <1>7, <3>1, <3>2
  <2>2. \A n \in 1 .. sizenode(t) : t.node[n].key # key
    BY <1>5, <1>7
  <2> QED
    BY <2>1, <2>2, Getting
<1>8. ASSUME NEW key \in Fields PROVE Present(t, key) <=> \E i \in PlacesOf(t) : EntryKey(t, i) = key
  <2>1. Present(t, key) <=> InArray(t, key) \/ \E n \in 1 .. sizenode(t) : t.node[n].key = key
    BY PresentIs
  <2>2. ASSUME InArray(t, key) PROVE \E i \in PlacesOf(t) : EntryKey(t, i) = key
    <3>1. key = Num(key[2]) /\ key[2] \in 1 .. sizearray(t)
      BY <1>1, <2>2, KeysNumbered
    <3> QED
      BY <1>2, <1>4, <3>1
  <2>3. ASSUME NEW n \in 1 .. sizenode(t), t.node[n].key = key PROVE \E i \in PlacesOf(t) : EntryKey(t, i) = key
    BY <1>5, <2>3
  <2>4. ASSUME NEW i \in PlacesOf(t), EntryKey(t, i) = key
        PROVE  InArray(t, key) \/ \E n \in 1 .. sizenode(t) : t.node[n].key = key
    <3>1. CASE i <= sizearray(t)
      BY <1>2, <2>4, <3>1, KeysNumbered DEF InArray
    <3>2. CASE ~(i <= sizearray(t))
      BY <1>3, <2>4, <3>2
    <3> QED
      BY <3>1, <3>2
  <2> QED
    BY <2>1, <2>2, <2>3, <2>4
<1>9. ASSUME NEW i \in PlacesOf(t), NEW j \in PlacesOf(t), EntryKey(t, i) \in Fields, EntryKey(t, i) = EntryKey(t, j)
      PROVE  i = j
  <2>1. \A x \in PlacesOf(t) : x <= sizearray(t) <=> InArray(t, EntryKey(t, x))
    <3> SUFFICES ASSUME NEW x \in PlacesOf(t)
                 PROVE  x <= sizearray(t) <=> InArray(t, EntryKey(t, x))
      OBVIOUS
    <3>1. x <= sizearray(t) => InArray(t, EntryKey(t, x))
      BY <1>2, KeysNumbered DEF InArray
    <3>2. ~(x <= sizearray(t)) => ~InArray(t, EntryKey(t, x))
      <4> SUFFICES ASSUME ~(x <= sizearray(t)), InArray(t, EntryKey(t, x)) PROVE FALSE
        OBVIOUS
      <4>1. PICK n \in 1 .. sizenode(t) : EntryKey(t, x) = t.node[n].key
        BY <1>3
      <4>2. t.node[n].key \in Key /\ t.node[n].key \notin Fields
        BY <1>1, <4>1, TableParts DEF Sane, Node
      <4>3. t.node[n].key = Nil \/ t.node[n].key \in DeadFields
        BY <4>2 DEF Key
      <4>4. ~IsNumber(t.node[n].key)
        BY <4>3 DEF IsNumber, Nil, DeadFields, Dead
      <4> QED
        BY <1>1, <4>1, <4>4 DEF InArray, arrayindex
    <3> QED
      BY <3>1, <3>2
  <2>2. CASE i <= sizearray(t)
    <3>1. j <= sizearray(t)
      BY <1>9, <2>1, <2>2
    <3> QED
      BY <1>2, <1>9, <2>2, <3>1, KeysNumbered
  <2>3. CASE ~(i <= sizearray(t))
    <3>1. ~(j <= sizearray(t))
      BY <1>9, <2>1, <2>3
    <3>2. PICK n \in 1 .. sizenode(t) : i = sizearray(t) + n /\ EntryKey(t, i) = t.node[n].key
      BY <1>3, <2>3
    <3>3. PICK m \in 1 .. sizenode(t) : j = sizearray(t) + m /\ EntryKey(t, j) = t.node[m].key
      BY <1>3, <3>1
    <3>4. KeysOf(t)[n] = KeysOf(t)[m] /\ KeysOf(t)[n] \in Fields
      BY <1>9, <3>2, <3>3 DEF KeysOf
    <3>5. n = m
      BY <3>4 DEF Sane, Chains
    <3> QED
      BY <3>2, <3>3, <3>5
  <2> QED
    BY <2>2, <2>3
<1>10. ASSUME NEW i \in PlacesOf(t), EntryValue(t, i) # Nil PROVE EntryKey(t, i) \in Fields
  <2>1. CASE i <= sizearray(t)
    BY <1>2, <1>10, <2>1 DEF Sane
  <2>2. CASE ~(i <= sizearray(t))
    BY <1>3, <1>10, <2>2 DEF Sane
  <2> QED
    BY <2>1, <2>2
<1> QED
  BY <1>6, <1>7, <1>8, <1>9, <1>10

(* After a value is stored, its key has it and the others have what they *)
(* had.                                                                  *)
LEMMA StoredView ==
  ASSUME NEW t, Sane(t), NEW key \in Fields, Present(t, key), NEW val, NEW u, Storing(t, u, key, val)
  PROVE  \A k \in Places : luaH_get(u, k) = IF k = key THEN val ELSE luaH_get(t, k)
<1>1. Sane(u) /\ PlacesOf(u) = PlacesOf(t)
  BY DEF Storing, PlacesOf
<1>2. \A i \in PlacesOf(t) : /\ EntryKey(u, i) = EntryKey(t, i)
                             /\ EntryValue(u, i) = IF EntryKey(t, i) = key THEN val ELSE EntryValue(t, i)
  BY DEF Storing, PlacesOf
<1> SUFFICES ASSUME NEW k \in Places PROVE luaH_get(u, k) = IF k = key THEN val ELSE luaH_get(t, k)
  OBVIOUS
<1>3. CASE \E i \in PlacesOf(t) : EntryKey(t, i) = k
  <2>1. PICK i \in PlacesOf(t) : EntryKey(t, i) = k
    BY <1>3
  <2>2. luaH_get(u, k) = EntryValue(u, i) /\ luaH_get(t, k) = EntryValue(t, i)
    BY <1>1, <1>2, <2>1, PlaceGot
  <2> QED
    BY <1>2, <2>1, <2>2
<1>4. CASE \A i \in PlacesOf(t) : EntryKey(t, i) # k
  <2>1. k # key
    BY <1>4, PlaceGot
  <2>2. luaH_get(u, k) = Nil /\ luaH_get(t, k) = Nil
    BY <1>1, <1>2, <1>4, PlaceGot
  <2> QED
    BY <2>1, <2>2
<1> QED
  BY <1>3, <1>4

--------------------------------------------------------------------------------
(* Powers of two, and new vectors. *)
(* The powers of two.  A recursive function on the numbers exists: it is   *)
(* put together from those on the first ones.                              *)
Doubles(f, m) == f \in [0 .. m -> Nat] /\ f[0] = 1 /\ \A i \in 1 .. m : f[i] = 2 * f[i - 1]

(* Doubling m times is a function. *)
LEMMA DoublesExist == ASSUME NEW m \in Nat PROVE \E f : Doubles(f, m)
<1>1. PICK g : g = [p \in (0 .. m) \X Nat |-> 2 * p[2]]
  OBVIOUS
<1>2. g \in [(0 .. m) \X Nat -> Nat] /\ 0 \in Nat /\ 0 <= m /\ 1 \in Nat
  BY <1>1
<1>3. PICK f \in [0 .. m -> Nat] : Iterated(f, 0, m, 1, g)
  BY <1>2, IterationExists
<1>4. f = [i \in 0 .. m |-> IF i = 0 THEN 1 ELSE g[<<i, f[i - 1]>>]]
  BY <1>3 DEF Iterated
<1>5. f[0] = 1
  <2>1. 0 \in 0 .. m
    OBVIOUS
  <2> QED
    BY <1>4, <2>1, Zenon
<1>6. ASSUME NEW i \in 1 .. m PROVE f[i] = 2 * f[i - 1]
  <2>1. i \in 0 .. m /\ i # 0 /\ i - 1 \in 0 .. m
    OBVIOUS
  <2>2. f[i] = g[<<i, f[i - 1]>>]
    BY <1>4, <2>1, Zenon
  <2>3. f[i - 1] \in Nat
    BY <2>1
  <2> QED
    BY <1>1, <2>1, <2>2, <2>3
<1> QED
  BY <1>5, <1>6 DEF Doubles

(* Two such functions agree as far as both go. *)
LEMMA DoublesAgree ==
  ASSUME NEW m \in Nat, NEW k \in Nat, k <= m, NEW f, NEW h, Doubles(f, m), Doubles(h, k)
  PROVE  f[k] = h[k]
<1> DEFINE T == {i \in 0 .. k : f[i] = h[i]}
<1>1. 0 \in T /\ T \in SUBSET (0 .. k) /\ 0 \in Nat /\ 0 <= k
  BY DEF Doubles
<1>2. ASSUME NEW i \in 0 .. k, i \in T, i < k PROVE i + 1 \in T
  <2>1. i + 1 \in 1 .. k /\ i + 1 \in 1 .. m /\ (i + 1) - 1 = i /\ i + 1 \in 0 .. k
    BY <1>2
  <2>2. f[i + 1] = 2 * f[i] /\ h[i + 1] = 2 * h[i]
    BY <2>1 DEF Doubles
  <2> QED
    BY <1>2, <2>1, <2>2
<1>3. 0 .. k \subseteq T
  <2> HIDE DEF T
  <2> QED
    BY <1>1, <1>2, Upward
<1> QED
  BY <1>3

(* twoto is what its definition says, for every number. *)
LEMMA Twoto ==
  /\ twoto \in [Nat -> Nat] /\ twoto[0] = 1
  /\ \A i \in Nat : twoto[i + 1] = 2 * twoto[i]
<1> DEFINE F == [m \in Nat |-> (CHOOSE f : Doubles(f, m))[m]]
<1>1. \A m \in Nat : Doubles(CHOOSE f : Doubles(f, m), m)
  BY DoublesExist
<1>2. F \in [Nat -> Nat]
  <2> SUFFICES ASSUME NEW m \in Nat PROVE (CHOOSE f : Doubles(f, m))[m] \in Nat
    OBVIOUS
  <2>1. PICK f : f = CHOOSE h : Doubles(h, m)
    OBVIOUS
  <2>2. Doubles(f, m) /\ m \in 0 .. m
    BY <1>1, <2>1
  <2>3. f[m] \in Nat
    BY <2>2 DEF Doubles
  <2> QED
    BY <2>1, <2>3
<1>3. F[0] = 1
  <2>1. PICK f : f = CHOOSE h : Doubles(h, 0)
    OBVIOUS
  <2>2. Doubles(f, 0)
    BY <1>1, <2>1
  <2> QED
    BY <2>1, <2>2 DEF Doubles
<1>4. ASSUME NEW m \in Nat PROVE F[m + 1] = 2 * F[m]
  <2>1. PICK f, h : f = (CHOOSE e : Doubles(e, m + 1)) /\ h = (CHOOSE e : Doubles(e, m))
    OBVIOUS
  <2>2. m + 1 \in Nat
    OBVIOUS
  <2>3. Doubles(f, m + 1) /\ Doubles(h, m)
    BY <1>1, <2>1, <2>2
  <2>4. F[m + 1] = f[m + 1] /\ F[m] = h[m]
    BY <2>1, <2>2
  <2>5. f[m] = h[m]
    BY <2>2, <2>3, DoublesAgree
  <2>6. f[m + 1] = 2 * f[m]
    <3>1. m + 1 \in 1 .. m + 1 /\ (m + 1) - 1 = m
      OBVIOUS
    <3> QED
      BY <2>3, <3>1 DEF Doubles
  <2> QED
    BY <2>4, <2>5, <2>6
<1> HIDE DEF F
<1>5. \A i \in Nat : F[i] = IF i = 0 THEN 1 ELSE 2 * F[i - 1]
  <2> SUFFICES ASSUME NEW i \in Nat PROVE F[i] = IF i = 0 THEN 1 ELSE 2 * F[i - 1]
    OBVIOUS
  <2>1. i # 0 => i - 1 \in Nat /\ (i - 1) + 1 = i
    OBVIOUS
  <2> QED
    BY <1>3, <1>4, <2>1
<1>6. F = [i \in Nat |-> IF i = 0 THEN 1 ELSE 2 * F[i - 1]]
  <2>1. F = [i \in Nat |-> F[i]]
    BY <1>2
  <2> QED
    BY <1>5, <2>1, Zenon
<1>7. twoto = [i \in Nat |-> IF i = 0 THEN 1 ELSE 2 * twoto[i - 1]]
  BY <1>6, Zenon DEF twoto
<1>8. twoto[0] = 1
  <2>1. 0 \in Nat
    OBVIOUS
  <2> QED
    BY <1>7, <2>1, Zenon
<1>9. ASSUME NEW i \in Nat PROVE twoto[i + 1] = 2 * twoto[i]
  <2>1. i + 1 \in Nat /\ i + 1 # 0 /\ (i + 1) - 1 = i
    OBVIOUS
  <2>2. twoto[i + 1] = 2 * twoto[(i + 1) - 1]
    BY <1>7, <2>1, Zenon
  <2> QED
    BY <2>1, <2>2
<1>10. ASSUME NEW m \in Nat PROVE twoto[m] \in Nat
  <2> DEFINE T == {i \in 0 .. m : twoto[i] \in Nat}
  <2>1. 0 \in T /\ T \in SUBSET (0 .. m) /\ 0 \in Nat /\ 0 <= m
    BY <1>8
  <2>2. \A i \in 0 .. m : i \in T /\ i < m => i + 1 \in T
    BY <1>9
  <2>3. 0 .. m \subseteq T
    <3> HIDE DEF T
    <3> QED
      BY <2>1, <2>2, Upward
  <2> QED
    BY <2>3
<1>11. twoto \in [Nat -> Nat]
  <2>1. DOMAIN twoto = Nat /\ twoto = [i \in DOMAIN twoto |-> twoto[i]]
    BY <1>7, Zenon
  <2> QED
    BY <1>10, <2>1
<1> QED
  BY <1>8, <1>9, <1>11

(* Powers of two grow. *)
LEMMA TwotoGrows ==
  /\ \A i \in Nat : i < twoto[i]
  /\ \A i, j \in Nat : i < j => twoto[i] < twoto[j]
<1>1. ASSUME NEW m \in Nat PROVE m < twoto[m]
  <2> DEFINE T == {i \in 0 .. m : i < twoto[i]}
  <2>1. 0 \in T /\ T \in SUBSET (0 .. m) /\ 0 \in Nat /\ 0 <= m
    BY Twoto
  <2>2. ASSUME NEW i \in 0 .. m, i \in T, i < m PROVE i + 1 \in T
    <3>1. i \in Nat /\ twoto[i] \in Nat /\ i < twoto[i] /\ twoto[i + 1] = 2 * twoto[i] /\ i + 1 \in 0 .. m
      BY <2>2, Twoto
    <3> QED
      BY <3>1
  <2>3. 0 .. m \subseteq T
    <3> HIDE DEF T
    <3> QED
      BY <2>1, <2>2, Upward
  <2> QED
    BY <2>3
<1>2. ASSUME NEW i \in Nat, NEW j \in Nat, i < j PROVE twoto[i] < twoto[j]
  <2> DEFINE T == {k \in i + 1 .. j : twoto[i] < twoto[k]}
  <2>a. twoto[i] \in Nat /\ i < twoto[i] /\ twoto[i + 1] = 2 * twoto[i]
    BY <1>1, Twoto
  <2>1. i + 1 \in T /\ T \in SUBSET (i + 1 .. j) /\ i + 1 \in Nat /\ i + 1 <= j
    BY <1>2, <2>a
  <2>2. ASSUME NEW k \in i + 1 .. j, k \in T, k < j PROVE k + 1 \in T
    <3>1. k \in Nat /\ twoto[k] \in Nat /\ twoto[k + 1] = 2 * twoto[k] /\ k + 1 \in i + 1 .. j /\ twoto[i] < twoto[k]
      BY <2>2, Twoto
    <3>2. twoto[i] < 2 * twoto[k]
      BY <2>a, <3>1
    <3> QED
      BY <3>1, <3>2
  <2>3. i + 1 .. j \subseteq T
    <3> HIDE DEF T
    <3> QED
      BY <2>1, <2>2, Upward
  <2> QED
    BY <1>2, <2>3
<1> QED
  BY <1>1, <1>2

(* luaO_log2 and the size of the nodes: a power of two, not below what *)
(* was asked for.                                                      *)
LEMMA CeilLog ==
  ASSUME NEW x \in Nat \ {0}
  PROVE  /\ CeilLog2(x) \in Nat /\ x <= twoto[CeilLog2(x)]
         /\ CeilLog2(twoto[CeilLog2(x)]) = CeilLog2(x)
<1> DEFINE Log(y, i) == y <= twoto[i] /\ (i > 0 => twoto[i - 1] < y)
<1>1. ASSUME NEW y \in Nat \ {0} PROVE CeilLog2(y) \in 0 .. y /\ Log(y, CeilLog2(y))
  <2> DEFINE T == {i \in Nat : y <= twoto[i]}
  <2>1. y \in T
    <3>1. y < twoto[y] /\ twoto[y] \in Nat
      BY Twoto, TwotoGrows
    <3> QED
      BY <3>1
  <2>2. PICK n \in T : \A m \in T : n <= m
    <3>1. T \subseteq Nat /\ T # {}
      BY <2>1
    <3> HIDE DEF T
    <3> QED
      BY <3>1, LeastOf
  <2>3. n \in 0 .. y
    BY <2>1, <2>2
  <2>4. n > 0 => twoto[n - 1] < y
    <3> SUFFICES ASSUME n > 0, ~(twoto[n - 1] < y) PROVE FALSE
      OBVIOUS
    <3>1. n - 1 \in Nat /\ twoto[n - 1] \in Nat /\ ~(n <= n - 1)
      BY Twoto
    <3>2. n - 1 \in T
      BY <3>1
    <3> QED
      BY <2>2, <3>1, <3>2
  <2>5. \E i \in 0 .. y : y <= twoto[i] /\ (i > 0 => twoto[i - 1] < y)
    BY <2>3, <2>4
  <2> QED
    BY <2>5, Zenon DEF CeilLog2
<1>2. PICK i : i = CeilLog2(x)
  OBVIOUS
<1>3. i \in Nat /\ twoto[i] \in Nat /\ x <= twoto[i] /\ twoto[i] \in Nat \ {0}
  <2>1. i \in 0 .. x /\ x <= twoto[i]
    BY <1>1, <1>2
  <2>2. i \in Nat /\ twoto[i] \in Nat
    BY <2>1, Twoto
  <2> QED
    BY <2>1, <2>2
<1>4. PICK j : j = CeilLog2(twoto[i])
  OBVIOUS
<1>5. j \in Nat /\ Log(twoto[i], j)
  <2>1. j \in 0 .. twoto[i] /\ Log(twoto[i], j)
    BY <1>1, <1>3, <1>4
  <2> QED
    BY <1>3, <2>1
<1>6. ~(j < i)
  <2>1. j < i => twoto[j] < twoto[i] /\ twoto[j] \in Nat
    BY <1>3, <1>5, Twoto, TwotoGrows
  <2> QED
    BY <1>3, <1>5, <2>1
<1>7. ~(i < j)
  <2> SUFFICES ASSUME i < j PROVE FALSE
    OBVIOUS
  <2>1. j - 1 \in Nat /\ (i = j - 1 \/ i < j - 1) /\ j > 0
    BY <1>3, <1>5
  <2>2. twoto[j - 1] < twoto[i] /\ twoto[j - 1] \in Nat
    BY <1>5, <2>1, Twoto
  <2>3. i < j - 1 => twoto[i] < twoto[j - 1]
    BY <1>3, <2>1, TwotoGrows
  <2> QED
    BY <1>3, <2>1, <2>2, <2>3
<1>8. i = j
  BY <1>3, <1>5, <1>6, <1>7
<1> QED
  BY <1>2, <1>3, <1>4, <1>8
(* setnodevector: as many free nodes as were asked for, or dummynode. *)
LEMMA FreshNodes ==
  ASSUME NEW s \in Table, sizearray(s) <= MAX_INT,
         \A i \in 1 .. sizearray(s) : s.array[i] # Nil => Num(i) \in Fields,
         NEW size \in Nat, NEW u, u = setnodevector(s, size)
  PROVE  /\ Sane(u) /\ u.array = s.array /\ u.flags = s.flags /\ (u.dummy <=> size = 0)
         /\ sizenode(u) = (IF size = 0 THEN 1 ELSE twoto[CeilLog2(size)]) /\ size <= sizenode(u)
         /\ \A n \in 1 .. sizenode(u) : u.node[n] = FreeNode
<1>1. PICK N : N = IF size = 0 THEN 1 ELSE twoto[CeilLog2(size)]
  OBVIOUS
<1>2. N \in Nat /\ N > 0 /\ size <= N /\ (size # 0 => N = twoto[CeilLog2(N)])
  <2>1. CASE size = 0
    BY <1>1, <2>1
  <2>2. CASE size # 0
    <3>1. size \in Nat \ {0} /\ N = twoto[CeilLog2(size)]
      BY <1>1, <2>2
    <3>2. CeilLog2(size) \in Nat /\ size <= N /\ CeilLog2(N) = CeilLog2(size)
      BY <3>1, CeilLog
    <3>3. N \in Nat
      BY <3>1, <3>2, Twoto
    <3> QED
      BY <3>1, <3>2, <3>3
  <2> QED
    BY <2>1, <2>2
<1>3. PICK f : f = [n \in 1 .. N |-> FreeNode]
  OBVIOUS
<1>4. f \in [1 .. N -> Node] /\ f \in Seq(Node) /\ Len(f) = N
  <2>1. FreeNode \in Node
    BY DEF FreeNode, Node, Key, Value, NULL
  <2>2. f \in [1 .. N -> Node]
    BY <1>3, <2>1
  <2> QED
    BY <1>2, <2>2, LengthOf
<1>5. /\ u \in Table /\ u.array = s.array /\ u.flags = s.flags /\ (u.dummy <=> size = 0)
      /\ u.node = f /\ u.lastfree \in 1 .. N + 1 /\ (size = 0 => u.node = <<FreeNode>> /\ u.lastfree = 1)
      /\ (size # 0 => u.lastfree = N + 1)
  <2>1. CASE size = 0
    <3>1. N = 1 /\ f = <<FreeNode>>
      BY <1>1, <1>3, <2>1
    <3>2. u = [s EXCEPT !.node = <<FreeNode>>, !.dummy = TRUE, !.lastfree = 1]
      BY <2>1 DEF setnodevector
    <3>3. u = [s EXCEPT !.node = f, !.dummy = TRUE, !.lastfree = 1]
      BY <3>1, <3>2
    <3>4. /\ u \in Table /\ u.array = s.array /\ u.flags = s.flags /\ u.dummy = TRUE
          /\ u.node = f /\ u.lastfree = 1
      <4>1. u = [array |-> s.array, node |-> f, dummy |-> TRUE, lastfree |-> 1,
                 metatable |-> s.metatable, flags |-> s.flags]
        BY <3>3 DEF Table
      <4>2. s.array \in Seq(Value) /\ s.metatable \in {NULL} /\ s.flags \in SUBSET FlaggedEvents
        BY DEF Table
      <4>3. u \in Table
        BY <1>4, <4>1, <4>2 DEF Table
      <4> QED
        BY <4>1, <4>3
    <3> QED
      BY <2>1, <3>1, <3>4
  <2>2. CASE size # 0
    <3>1. u = [[s EXCEPT !.node = f, !.lastfree = N + 1] EXCEPT !.dummy = FALSE]
      BY <1>1, <1>3, <2>2 DEF setnodevector, NodeVector
    <3>2. /\ u \in Table /\ u.array = s.array /\ u.flags = s.flags /\ u.dummy = FALSE
          /\ u.node = f /\ u.lastfree = N + 1
      <4>1. u = [array |-> s.array, node |-> f, dummy |-> FALSE, lastfree |-> N + 1,
                 metatable |-> s.metatable, flags |-> s.flags]
        BY <3>1 DEF Table
      <4>2. s.array \in Seq(Value) /\ s.metatable \in {NULL} /\ s.flags \in SUBSET FlaggedEvents
        BY DEF Table
      <4>3. u \in Table
        BY <1>2, <1>4, <4>1, <4>2 DEF Table
      <4> QED
        BY <4>1, <4>3
    <3> QED
      BY <1>2, <2>2, <3>2
  <2> QED
    BY <2>1, <2>2
<1>6. sizenode(u) = N /\ sizearray(u) = sizearray(s)
  BY <1>4, <1>5 DEF sizenode, sizearray
<1>7. \A n \in 1 .. N : u.node[n] = FreeNode /\ u.node[n].key = Nil /\ u.node[n].val = Nil
  BY <1>3, <1>5 DEF FreeNode
<1>8. KeysOf(u) = [n \in 1 .. N |-> Nil] /\ Nexts(u) = [n \in 1 .. N |-> 0]
  BY <1>6, <1>7 DEF KeysOf, Nexts, FreeNode, NULL
<1>9. Home(u) \in [Fields -> 1 .. N]
  BY <1>2, <1>5, <1>6, Place, PlacesKeys DEF Home
<1>10. Chains(KeysOf(u), Nexts(u), Home(u), N)
  BY <1>2, <1>8, <1>9, ChainsFresh
<1>11. Sane(u)
  <2>1. ~u.dummy => sizenode(u) = twoto[CeilLog2(sizenode(u))] /\ \A n \in u.lastfree .. sizenode(u) : u.node[n].key # Nil
    BY <1>2, <1>5, <1>6
  <2>2. \A n \in 1 .. sizenode(u) : u.node[n].key \notin Fields => u.node[n].val = Nil
    BY <1>6, <1>7
  <2>3. \A n \in 1 .. sizenode(u) : u.node[n].key \in Fields => ~InArray(u, u.node[n].key)
    BY <1>6, <1>7, KeyKinds
  <2>4. sizenode(u) > 0 /\ u.lastfree \in 1 .. sizenode(u) + 1 /\ (u.dummy => u.node = <<FreeNode>> /\ u.lastfree = 1)
    BY <1>2, <1>5, <1>6
  <2>5. sizearray(u) <= MAX_INT /\ \A i \in 1 .. sizearray(u) : u.array[i] # Nil => Num(i) \in Fields
    BY <1>5, <1>6
  <2> QED
    BY <1>5, <1>6, <1>10, <2>1, <2>2, <2>3, <2>4, <2>5 DEF Sane
<1> QED
  BY <1>1, <1>2, <1>5, <1>6, <1>7, <1>11

(* setarrayvector: the array gets its size, its items stay and new ones *)
(* are nil.                                                             *)
LEMMA NewArray ==
  ASSUME NEW t \in Table, NEW size \in Nat, NEW s, s = setarrayvector(t, size)
  PROVE  /\ s \in Table /\ sizearray(s) = size /\ s.node = t.node /\ s.dummy = t.dummy /\ s.flags = t.flags
         /\ s.lastfree = t.lastfree
         /\ \A i \in 1 .. size : s.array[i] = IF i <= sizearray(t) THEN t.array[i] ELSE Nil
<1>1. PICK a : a = [i \in 1 .. size |-> IF i <= Len(t.array) THEN t.array[i] ELSE Nil]
  OBVIOUS
<1>2. sizearray(t) \in Nat /\ t.array \in [1 .. sizearray(t) -> Value]
  BY TableParts
<1>3. a \in [1 .. size -> Value]
  <2>1. ASSUME NEW i \in 1 .. size PROVE (IF i <= Len(t.array) THEN t.array[i] ELSE Nil) \in Value
    <3>1. i <= Len(t.array) => i \in 1 .. sizearray(t)
      BY <1>2 DEF sizearray
    <3> QED
      BY <1>2, <3>1 DEF Value
  <2> QED
    BY <1>1, <2>1
<1>4. a \in Seq(Value) /\ Len(a) = size
  BY <1>3, LengthOf
<1>5. s = [t EXCEPT !.array = a]
  BY <1>1 DEF setarrayvector
<1>6. s \in Table /\ s.array = a
  BY <1>4, <1>5 DEF Table
<1>7. s.node = t.node /\ s.dummy = t.dummy /\ s.flags = t.flags /\ s.lastfree = t.lastfree
  BY <1>5 DEF Table
<1>8. \A i \in 1 .. size : a[i] = IF i <= Len(t.array) THEN t.array[i] ELSE Nil
  BY <1>1
<1> QED
  BY <1>4, <1>6, <1>7, <1>8 DEF sizearray

(* luaH_new: a sane table without fields, all events noted as absent. *)
LEMMA NewTable ==
  ASSUME NEW u, u = luaH_new(0, 0)
  PROVE  Sane(u) /\ sizearray(u) = 0 /\ u.flags = FlaggedEvents /\ \A key \in Places : luaH_get(u, key) = Nil
<1>1. PICK a : a = [i \in 1 .. 0 |-> Nil]
  OBVIOUS
<1>2. a \in [1 .. 0 -> Value] /\ a \in Seq(Value) /\ Len(a) = 0
  <2>1. a \in [1 .. 0 -> Value] /\ 0 \in Nat
    BY <1>1 DEF Value
  <2> QED
    BY <2>1, LengthOf
<1>3. PICK s : s = [array |-> a, node |-> <<FreeNode>>, dummy |-> TRUE,
                    lastfree |-> 1, metatable |-> NULL, flags |-> FlaggedEvents]
  OBVIOUS
<1>4. s \in Table /\ sizearray(s) = 0 /\ s.flags = FlaggedEvents
  <2>1. <<FreeNode>> \in Seq(Node)
    BY DEF FreeNode, Node, Key, Value, NULL
  <2> QED
    BY <1>2, <1>3, <2>1 DEF Table, sizearray
<1>5. u = setnodevector(s, 0)
  BY <1>1, <1>3 DEF luaH_new
<1>6. sizearray(s) <= MAX_INT /\ 1 .. sizearray(s) = {} /\ 0 \in Nat
  BY <1>4, SizesAssumption
<1>7. /\ Sane(u) /\ u.array = s.array /\ u.flags = s.flags
      /\ \A n \in 1 .. sizenode(u) : u.node[n] = FreeNode
  BY <1>4, <1>5, <1>6, FreshNodes
<1>8. sizearray(u) = 0
  BY <1>4, <1>7 DEF sizearray
<1>9. ASSUME NEW key \in Places PROVE luaH_get(u, key) = Nil
  <2>1. ~InArray(u, key)
    BY <1>8 DEF InArray
  <2>2. \A n \in 1 .. sizenode(u) : u.node[n].key # key
    BY <1>7, PlacesKeys DEF FreeNode
  <2> QED
    BY <1>7, <2>1, <2>2, Getting
<1> QED
  BY <1>4, <1>7, <1>8, <1>9

--------------------------------------------------------------------------------
(* Resizing. *)
(* A function from number to number whose values keep to R. *)
Keeping(a, b, S, R, x, g) ==
  /\ x \in S /\ <<a, x>> \in R
  /\ \A i \in a .. b, y \in S :
       <<i, y>> \in R /\ i < b => g[<<i + 1, y>>] \in S /\ <<i + 1, g[<<i + 1, y>>]>> \in R

(* An iteration whose steps are functions only where R holds. *)
LEMMA IterationKeeping ==
  ASSUME NEW a \in Nat, NEW b \in Nat, a <= b, NEW S, NEW R, NEW x, NEW g, Keeping(a, b, S, R, x, g)
  PROVE  \E f \in [a .. b -> S] : Iterated(f, a, b, x, g) /\ \A i \in a .. b : <<i, f[i]>> \in R
<1>0. /\ x \in S /\ <<a, x>> \in R
      /\ \A i \in a .. b, y \in S :
           <<i, y>> \in R /\ i < b => g[<<i + 1, y>>] \in S /\ <<i + 1, g[<<i + 1, y>>]>> \in R
  BY DEF Keeping
<1>1. PICK h : h = [p \in (a .. b) \X S |-> IF g[p] \in S THEN g[p] ELSE x]
  OBVIOUS
<1>2. h \in [(a .. b) \X S -> S] /\ \A i \in a .. b, y \in S : g[<<i, y>>] \in S => h[<<i, y>>] = g[<<i, y>>]
  BY <1>0, <1>1
<1>3. PICK f \in [a .. b -> S] : Iterated(f, a, b, x, h)
  BY <1>0, <1>2, IterationExists
<1>4. PICK Q : Q = {p \in R : p[2] \in S}
  OBVIOUS
<1>5. \A i \in a .. b : <<i, f[i]>> \in Q
  <2>1. <<a, x>> \in Q
    BY <1>0, <1>4
  <2>2. ASSUME NEW i \in a .. b, NEW y, <<i, y>> \in Q, i < b PROVE <<i + 1, h[<<i + 1, y>>]>> \in Q
    <3>1. <<i, y>> \in R /\ y \in S /\ i + 1 \in a .. b
      BY <1>4, <2>2
    <3>2. g[<<i + 1, y>>] \in S /\ <<i + 1, g[<<i + 1, y>>]>> \in R
      BY <1>0, <2>2, <3>1
    <3>3. h[<<i + 1, y>>] = g[<<i + 1, y>>]
      BY <1>2, <3>1, <3>2
    <3> QED
      BY <1>4, <3>2, <3>3
  <2> QED
    BY <1>3, <2>1, <2>2, IterationKeeps
<1>6. \A i \in a .. b : f[i] = IF i = a THEN x ELSE h[<<i, f[i - 1]>>]
  BY <1>3, Zenon DEF Iterated
<1>7. \A i \in a .. b : f[i] = IF i = a THEN x ELSE g[<<i, f[i - 1]>>]
  <2> SUFFICES ASSUME NEW i \in a .. b PROVE f[i] = IF i = a THEN x ELSE g[<<i, f[i - 1]>>]
    OBVIOUS
  <2>1. CASE i = a
    BY <1>6, <2>1
  <2>2. CASE i # a
    <3>1. i - 1 \in a .. b /\ i - 1 < b /\ (i - 1) + 1 = i
      BY <2>2
    <3>2. <<i - 1, f[i - 1]>> \in R /\ f[i - 1] \in S
      BY <1>4, <1>5, <3>1
    <3>3. g[<<i, f[i - 1]>>] \in S
      BY <1>0, <3>1, <3>2
    <3>4. h[<<i, f[i - 1]>>] = g[<<i, f[i - 1]>>]
      BY <1>2, <3>2, <3>3
    <3> QED
      BY <1>6, <2>2, <3>4
  <2> QED
    BY <2>1, <2>2
<1>8. f = [i \in a .. b |-> IF i = a THEN x ELSE g[<<i, f[i - 1]>>]]
  <2>1. DOMAIN f = a .. b /\ f = [i \in DOMAIN f |-> f[i]]
    OBVIOUS
  <2>2. f = [i \in a .. b |-> f[i]]
    BY <2>1
  <2> QED
    BY <1>7, <2>2, Zenon
<1>9. \A i \in a .. b : <<i, f[i]>> \in R
  BY <1>4, <1>5
<1> QED
  BY <1>8, <1>9 DEF Iterated

(* The flags are apart from the rest of a table. *)
LEMMA OtherFlags ==
  ASSUME NEW t, Sane(t), NEW F \in SUBSET FlaggedEvents, NEW u, u = [t EXCEPT !.flags = F]
  PROVE  /\ Sane(u) /\ u.flags = F /\ u.array = t.array /\ u.node = t.node /\ u.dummy = t.dummy
         /\ u.lastfree = t.lastfree /\ sizenode(u) = sizenode(t) /\ sizearray(u) = sizearray(t)
         /\ AllKeys(u) = AllKeys(t) /\ \A key \in Places : luaH_get(u, key) = luaH_get(t, key)
         /\ \A key \in Fields : Present(u, key) = Present(t, key)
<1>1. t \in Table
  BY DEF Sane
<1>2. /\ u.flags = F /\ u.array = t.array /\ u.node = t.node /\ u.dummy = t.dummy
      /\ u.lastfree = t.lastfree
  BY <1>1 DEF Table
<1>3. u \in Table
  <2>1. u = [array |-> t.array, node |-> t.node, dummy |-> t.dummy, lastfree |-> t.lastfree,
             metatable |-> t.metatable, flags |-> F]
    BY <1>1 DEF Table
  <2>2. /\ t.array \in Seq(Value) /\ t.node \in Seq(Node) /\ t.dummy \in BOOLEAN /\ t.lastfree \in Nat
        /\ t.metatable \in {NULL}
    BY <1>1 DEF Table
  <2> QED
    BY <2>1, <2>2 DEF Table
<1>4. sizenode(u) = sizenode(t) /\ sizearray(u) = sizearray(t)
  BY <1>2 DEF sizenode, sizearray
<1>5. /\ KeysOf(u) = KeysOf(t) /\ Nexts(u) = Nexts(t) /\ Home(u) = Home(t)
      /\ \A key : InArray(u, key) <=> InArray(t, key)
  BY <1>2, <1>4 DEF KeysOf, Nexts, Home, mainposition, InArray
<1>6. Sane(u)
  <2>1. Chains(KeysOf(u), Nexts(u), Home(u), sizenode(u))
    BY <1>4, <1>5 DEF Sane
  <2>2. \A n \in 1 .. sizenode(u) : u.node[n].key \in Fields => ~InArray(u, u.node[n].key)
    BY <1>2, <1>4, <1>5 DEF Sane
  <2> QED
    BY <1>2, <1>3, <1>4, <2>1, <2>2 DEF Sane
<1>7. Entries(u) = Entries(t) /\ AllKeys(u) = AllKeys(t)
  BY <1>2, <1>4 DEF Entries, UsedNodes, AllKeys
<1>8. \A key \in Places : luaH_get(u, key) = luaH_get(t, key)
  BY <1>2, <1>6, <1>7, SameView
<1>9. \A key \in Fields : Present(u, key) <=> Present(t, key)
  <2> SUFFICES ASSUME NEW key \in Fields PROVE Present(u, key) <=> Present(t, key)
    OBVIOUS
  <2>1. Present(u, key) <=> InArray(u, key) \/ \E n \in 1 .. sizenode(u) : u.node[n].key = key
    BY <1>6, PresentIs
  <2>2. Present(t, key) <=> InArray(t, key) \/ \E n \in 1 .. sizenode(t) : t.node[n].key = key
    BY PresentIs
  <2> QED
    BY <1>2, <1>4, <1>5, <2>1, <2>2
<1>10. \A key \in Fields : Present(u, key) \in BOOLEAN /\ Present(t, key) \in BOOLEAN
  BY DEF Present
<1> QED
  BY <1>2, <1>4, <1>6, <1>7, <1>8, <1>9, <1>10

(* A table that is as large as the number of keys that may be put into it *)
(* has a free node for each.                                              *)
LEMMA Room ==
  ASSUME NEW s, Sane(s), ~s.dummy, NEW room, IsFiniteSet(room), room \subseteq Fields,
         AllKeys(s) \subseteq room, Cardinality(room) <= sizenode(s), NEW key \in room
  PROVE  Present(s, key) \/ ~Crowded(s, key)
<1> SUFFICES ASSUME ~Present(s, key), Crowded(s, key) PROVE FALSE
  OBVIOUS
<1>1. PICK N, K : N = sizenode(s) /\ K = KeysOf(s)
  OBVIOUS
<1>2. s \in Table /\ N \in Nat /\ N > 0 /\ s.lastfree \in 1 .. N + 1
  BY <1>1, TableParts DEF Sane
<1>3. \A n \in 1 .. N : K[n] = s.node[n].key
  BY <1>1, <1>2, NodeFacts
<1>4. \A n \in 1 .. N : K[n] # Nil
  <2> SUFFICES ASSUME NEW n \in 1 .. N PROVE K[n] # Nil
    OBVIOUS
  <2>1. getfreepos(s) = NULL
    BY DEF Crowded
  <2>2. CASE n \in 1 .. s.lastfree - 1
    BY <1>3, <2>1, <2>2, FreePlace
  <2>3. CASE n \notin 1 .. s.lastfree - 1
    <3>1. n \in s.lastfree .. N
      BY <1>2, <2>3
    <3> QED
      BY <1>1, <1>3, <3>1 DEF Sane
  <2> QED
    BY <2>2, <2>3
<1>5. PICK rest : rest = room \ {key}
  OBVIOUS
<1>6. \A n \in 1 .. N : K[n] \in rest
  <2>1. \A n \in 1 .. N : K[n] \in AllKeys(s)
    BY <1>1, <1>3, <1>4 DEF AllKeys
  <2>2. \A n \in 1 .. N : K[n] # key
    BY <1>1, <1>3, PresentIs
  <2> QED
    BY <1>5, <2>1, <2>2
<1>7. \A a, b \in 1 .. N : K[a] = K[b] => a = b
  <2>1. \A a \in 1 .. N : K[a] \in Fields
    BY <1>5, <1>6
  <2>2. Chains(K, Nexts(s), Home(s), N)
    BY <1>1 DEF Sane
  <2> QED
    BY <2>1, <2>2 DEF Chains
<1>8. IsFiniteSet(rest) /\ Cardinality(rest) < N
  <2>1. Cardinality(room) \in Nat
    BY FS_CardinalityType
  <2>2. IsFiniteSet(rest) /\ Cardinality(rest) = Cardinality(room) - 1
    BY <1>5, FS_RemoveElement
  <2> QED
    BY <1>1, <1>2, <2>1, <2>2
<1>9. PICK C, f : C = 1 .. N /\ f = [n \in C |-> K[n]]
  OBVIOUS
<1>10. IsFiniteSet(C) /\ Cardinality(C) = N /\ f \in [C -> rest] /\ \A a, b \in C : f[a] = f[b] => a = b
  <2>1. IsFiniteSet(1 .. N) /\ Cardinality(1 .. N) = N
    BY <1>2, FS_Interval
  <2> QED
    BY <1>6, <1>7, <1>9, <2>1
<1>11. \E a, b \in C : a # b /\ f[a] = f[b]
  <2>1. Cardinality(rest) < Cardinality(C)
    BY <1>8, <1>10
  <2> QED
    BY <1>8, <1>10, <2>1, FS_PigeonHole
<1> QED
  BY <1>10, <1>11
(* The loop of Refilled. *)
SourceOf(old, i) ==
  IF i <= sizearray(old) THEN i ELSE (sizearray(old) + sizenode(old)) + sizearray(old) + 1 - i

Cleared(old, s, i) == IF i <= sizearray(old) THEN s ELSE [s EXCEPT !.flags = {}]
Fill(old, i, s) ==
  LET key == EntryKey(old, SourceOf(old, i))
      val == EntryValue(old, SourceOf(old, i))
  IN IF val = Nil THEN s ELSE Store(Placed(Cleared(old, s, i), key), key, val)

(* The keys that need a node beside an array of nasize. *)
Needed(old, nasize) ==
  {EntryKey(old, i) : i \in {j \in PlacesOf(old) : /\ EntryValue(old, j) # Nil
                                                   /\ arrayindex(EntryKey(old, j)) \notin 1 .. nasize}}

Filled(old, t, kept, i, s) ==
  /\ Sane(s) /\ sizearray(s) = sizearray(t) /\ sizenode(s) = sizenode(t) /\ s.dummy = t.dummy
  /\ s.flags \subseteq old.flags /\ AllKeys(s) \subseteq Needed(old, sizearray(t))
  /\ \A j \in kept + 1 .. i :
       LET q == SourceOf(old, j)
       IN EntryValue(old, q) # Nil => luaH_get(s, EntryKey(old, q)) = EntryValue(old, q)
  /\ \A key \in Places :
       (\A j \in kept + 1 .. i : EntryValue(old, SourceOf(old, j)) # Nil => EntryKey(old, SourceOf(old, j)) # key)
         => luaH_get(s, key) = luaH_get(t, key)

(* resize goes over each place of the old table once: the array, then the *)
(* nodes from the last to the first.                                      *)
LEMMA Sources ==
  ASSUME NEW old, Sane(old)
  PROVE  /\ \A j \in PlacesOf(old) : SourceOf(old, j) \in PlacesOf(old) /\ SourceOf(old, SourceOf(old, j)) = j
         /\ \A i, j \in PlacesOf(old) : SourceOf(old, i) = SourceOf(old, j) => i = j
         /\ \A j \in PlacesOf(old) : j <= sizearray(old) <=> SourceOf(old, j) <= sizearray(old)
<1>1. sizearray(old) \in Nat /\ sizenode(old) \in Nat
  BY TableParts DEF Sane
<1>2. PICK a, b : a = sizearray(old) /\ b = sizenode(old)
  OBVIOUS
<1>3. \A j \in 1 .. a + b : /\ j <= a => SourceOf(old, j) = j
                            /\ ~(j <= a) => SourceOf(old, j) = (a + b) + a + 1 - j
  BY <1>2 DEF SourceOf
<1>4. \A j \in PlacesOf(old) : SourceOf(old, j) \in PlacesOf(old) /\ SourceOf(old, SourceOf(old, j)) = j
                               /\ (j <= sizearray(old) <=> SourceOf(old, j) <= sizearray(old))
  <2> SUFFICES ASSUME NEW j \in 1 .. a + b
               PROVE  SourceOf(old, j) \in 1 .. a + b /\ SourceOf(old, SourceOf(old, j)) = j /\ (j <= a <=> SourceOf(old, j) <= a)
    BY <1>2 DEF PlacesOf
  <2>1. CASE j <= a
    BY <1>3, <2>1
  <2>2. CASE ~(j <= a)
    <3>1. SourceOf(old, j) = (a + b) + a + 1 - j /\ SourceOf(old, j) \in 1 .. a + b /\ ~(SourceOf(old, j) <= a)
      BY <1>1, <1>2, <1>3, <2>2
    <3>2. SourceOf(old, SourceOf(old, j)) = (a + b) + a + 1 - SourceOf(old, j)
      BY <1>3, <3>1
    <3> QED
      BY <1>1, <1>2, <2>2, <3>1, <3>2
  <2> QED
    BY <2>1, <2>2
<1> QED
  BY <1>4

(* One turn of the loops of resize keeps what has been put in and adds *)
(* one entry.                                                          *)
LEMMA FillStep ==
  ASSUME NEW old, Sane(old), NEW t, Sane(t), NEW kept \in Nat, NEW i \in Nat, kept <= i,
         i + 1 \in PlacesOf(old), NEW room, IsFiniteSet(room), room \subseteq Fields,
         Needed(old, sizearray(t)) \subseteq room, Cardinality(room) <= sizenode(t),
         t.dummy => room = {}, NEW s, Filled(old, t, kept, i, s)
  PROVE  Filled(old, t, kept, i + 1, Fill(old, i + 1, s))
<1>1. PICK q, key, val : q = SourceOf(old, i + 1) /\ key = EntryKey(old, q) /\ val = EntryValue(old, q)
  OBVIOUS
<1>2. PICK u : u = Fill(old, i + 1, s)
  OBVIOUS
<1>3. q \in PlacesOf(old) /\ i + 1 \in kept + 1 .. i + 1
  BY <1>1, Sources
<1>4. CASE val = Nil
  <2>1. u = s
    BY <1>1, <1>2, <1>4 DEF Fill
  <2>2. \A j \in kept + 1 .. i + 1 : j \in kept + 1 .. i \/ j = i + 1
    OBVIOUS
  <2>3. ASSUME NEW j \in kept + 1 .. i + 1, EntryValue(old, SourceOf(old, j)) # Nil
        PROVE  j \in kept + 1 .. i
    BY <1>1, <1>4, <2>2, <2>3
  <2>4. \A j \in kept + 1 .. i : j \in kept + 1 .. i + 1
    OBVIOUS
  <2> QED
    BY <1>2, <2>1, <2>3, <2>4 DEF Filled
<1>5. CASE val # Nil
  <2>1. key \in Fields /\ key \in Places /\ val \in Value
    <3>1. key \in Fields
      BY <1>1, <1>3, <1>5, PlaceGot
    <3>2. luaH_get(old, key) = val /\ key \in Places
      BY <1>1, <1>3, <3>1, PlaceGot, PlacesKeys
    <3>3. val \in Value
      <4>1. /\ old \in Table /\ sizearray(old) \in Nat /\ old.array \in [1 .. sizearray(old) -> Value]
            /\ sizenode(old) \in Nat /\ ValuesOf(old) \in [1 .. sizenode(old) -> Value]
        BY TableParts DEF Sane
      <4>2. CASE q <= sizearray(old)
        <5>1. q \in 1 .. sizearray(old)
          BY <1>3, <4>1, <4>2 DEF PlacesOf
        <5> QED
          BY <1>1, <4>1, <4>2, <5>1 DEF EntryValue
      <4>3. CASE ~(q <= sizearray(old))
        <5>1. PICK n \in 1 .. sizenode(old) : n = q - sizearray(old)
          BY <1>3, <4>1, <4>3 DEF PlacesOf
        <5>2. val = ValuesOf(old)[n]
          BY <1>1, <4>3, <5>1 DEF EntryValue, ValuesOf
        <5> QED
          BY <4>1, <5>2
      <4> QED
        BY <4>2, <4>3
    <3> QED
      BY <3>1, <3>2, <3>3
  <2>2. PICK s1 : s1 = Cleared(old, s, i + 1)
    OBVIOUS
  <2>3. PICK s2 : s2 = Placed(s1, key)
    OBVIOUS
  <2>4. u = Store(s2, key, val)
    BY <1>1, <1>2, <1>5, <2>2, <2>3 DEF Fill
  <2>5. /\ Sane(s) /\ sizearray(s) = sizearray(t) /\ sizenode(s) = sizenode(t) /\ s.dummy = t.dummy
        /\ s.flags \subseteq old.flags /\ AllKeys(s) \subseteq Needed(old, sizearray(t))
    BY DEF Filled
  <2>6. /\ Sane(s1) /\ sizearray(s1) = sizearray(t) /\ sizenode(s1) = sizenode(t) /\ s1.dummy = t.dummy
        /\ s1.flags \subseteq old.flags /\ AllKeys(s1) = AllKeys(s)
        /\ \A k \in Places : luaH_get(s1, k) = luaH_get(s, k)
    <3>1. CASE i + 1 <= sizearray(old)
      BY <2>2, <2>5, <3>1 DEF Cleared
    <3>2. CASE ~(i + 1 <= sizearray(old))
      <4>1. s1 = [s EXCEPT !.flags = {}] /\ {} \in SUBSET FlaggedEvents
        BY <2>2, <3>2 DEF Cleared
      <4> QED
        BY <2>5, <4>1, OtherFlags
    <3> QED
      BY <3>1, <3>2
  <2>7. InArray(s1, key) \/ key \in Needed(old, sizearray(t))
    BY <1>1, <1>3, <1>5, <2>6 DEF InArray, Needed
  <2>8. Present(s1, key) \/ ~Crowded(s1, key)
    <3>1. CASE InArray(s1, key)
      BY <2>1, <2>6, <3>1, PresentIs
    <3>2. CASE key \in Needed(old, sizearray(t))
      <4>1. ~s1.dummy /\ key \in room
        BY <2>6, <3>2
      <4>2. AllKeys(s1) \subseteq room /\ Cardinality(room) <= sizenode(s1)
        BY <2>5, <2>6
      <4> QED
        BY <2>6, <4>1, <4>2, Room
    <3> QED
      BY <2>7, <3>1, <3>2
  <2>9. Placing(s1, s2, key)
    BY <2>1, <2>3, <2>6, <2>8, KeyPlaced
  <2>10. AllKeys(s2) \subseteq Needed(old, sizearray(t))
    <3>1. CASE InArray(s1, key)
      <4>1. Present(s1, key)
        BY <2>1, <2>6, <3>1, PresentIs
      <4>2. s2 = s1
        BY <2>3, <4>1 DEF Placed
      <4> QED
        BY <2>5, <2>6, <4>2
    <3>2. CASE key \in Needed(old, sizearray(t))
      BY <2>5, <2>6, <2>9, <3>2 DEF Placing
    <3> QED
      BY <2>7, <3>1, <3>2
  <2>11. Storing(s2, u, key, val)
    BY <2>1, <2>4, <2>9, ValueStored DEF Placing
  <2>12. \A k \in Places : luaH_get(u, k) = IF k = key THEN val ELSE luaH_get(s, k)
    <3>1. \A k \in Places : luaH_get(u, k) = IF k = key THEN val ELSE luaH_get(s2, k)
      BY <2>1, <2>9, <2>11, StoredView DEF Placing
    <3>2. \A k \in Places : luaH_get(s2, k) = luaH_get(s1, k)
      BY <2>6, <2>9, SameView DEF Placing
    <3> QED
      BY <2>6, <3>1, <3>2
  <2>13. /\ Sane(u) /\ sizearray(u) = sizearray(t) /\ sizenode(u) = sizenode(t) /\ u.dummy = t.dummy
         /\ u.flags \subseteq old.flags
    <3>1. sizearray(s2) = sizearray(s1)
      BY <2>9 DEF Placing, sizearray
    <3> QED
      BY <2>6, <2>9, <2>11, <3>1 DEF Placing, Storing
  <2>14. AllKeys(u) = AllKeys(s2)
    <3>1. u \in Table /\ s2 \in Table
      BY <2>9, <2>13 DEF Placing, Sane
    <3> QED
      BY <2>11, <3>1, EntriesOf DEF Storing
  <2>15. ASSUME NEW j \in kept + 1 .. i + 1, EntryValue(old, SourceOf(old, j)) # Nil
         PROVE  luaH_get(u, EntryKey(old, SourceOf(old, j))) = EntryValue(old, SourceOf(old, j))
    <3>1. CASE j = i + 1
      BY <1>1, <2>1, <2>12, <3>1
    <3>2. CASE j # i + 1
      <4>1. j \in kept + 1 .. i
        BY <3>2
      <4>2. luaH_get(s, EntryKey(old, SourceOf(old, j))) = EntryValue(old, SourceOf(old, j))
        BY <2>15, <4>1 DEF Filled
      <4>3. j \in PlacesOf(old) /\ SourceOf(old, j) \in PlacesOf(old)
        <5>1. j \in PlacesOf(old)
          BY <4>1, TableParts DEF PlacesOf, Sane
        <5> QED
          BY <5>1, Sources
      <4>4. EntryKey(old, SourceOf(old, j)) \in Fields /\ EntryKey(old, SourceOf(old, j)) \in Places
        BY <2>15, <4>3, PlaceGot, PlacesKeys
      <4>5. EntryKey(old, SourceOf(old, j)) # key
        <5> SUFFICES ASSUME EntryKey(old, SourceOf(old, j)) = key PROVE FALSE
          OBVIOUS
        <5>1. SourceOf(old, j) = q
          BY <1>1, <1>3, <4>3, <4>4, PlaceGot
        <5> QED
          BY <1>1, <3>2, <4>3, <5>1, Sources
      <4> QED
        BY <2>12, <4>2, <4>4, <4>5
    <3> QED
      BY <3>1, <3>2
  <2>16. ASSUME NEW k \in Places,
                \A j \in kept + 1 .. i + 1 : EntryValue(old, SourceOf(old, j)) # Nil => EntryKey(old, SourceOf(old, j)) # k
         PROVE  luaH_get(u, k) = luaH_get(t, k)
    <3>1. k # key
      BY <1>1, <1>3, <1>5, <2>16
    <3>2. \A j \in kept + 1 .. i : j \in kept + 1 .. i + 1
      OBVIOUS
    <3>3. luaH_get(s, k) = luaH_get(t, k)
      BY <2>16, <3>2 DEF Filled
    <3> QED
      BY <2>12, <3>1, <3>3
  <2> QED
    BY <1>2, <2>10, <2>13, <2>14, <2>15, <2>16 DEF Filled
<1> QED
  BY <1>4, <1>5
(* The loops of resize put all entries into the new vectors, and no *)
(* rehash is needed meanwhile.                                      *)
LEMMA Refill ==
  ASSUME NEW old, Sane(old), NEW t, Sane(t), t.flags \subseteq old.flags, AllKeys(t) = {},
         NEW room, IsFiniteSet(room), room \subseteq Fields,
         Needed(old, sizearray(t)) \subseteq room, Cardinality(room) <= sizenode(t),
         t.dummy => room = {},
         NEW kept, kept = (IF sizearray(t) < sizearray(old) THEN sizearray(t) ELSE sizearray(old)),
         NEW u, u = Refilled(t, old)
  PROVE  Filled(old, t, kept, sizearray(old) + sizenode(old), u)
<1>1. PICK b : b = sizearray(old) + sizenode(old)
  OBVIOUS
<1>2. /\ kept \in Nat /\ b \in Nat /\ kept <= b /\ PlacesOf(old) = 1 .. b
      /\ t \in Table /\ sizearray(t) \in Nat /\ sizearray(old) \in Nat /\ sizenode(old) \in Nat
  BY <1>1, TableParts DEF Sane, PlacesOf
<1> DEFINE R == {p \in (kept .. b) \X Table : Filled(old, t, kept, p[1], p[2])}
           g == [p \in (kept .. b) \X Table |-> Fill(old, p[1], p[2])]
<1>3. t \in Table /\ <<kept, t>> \in R
  <2>1. kept + 1 .. kept = {} /\ kept \in kept .. b
    BY <1>2
  <2>2. Filled(old, t, kept, kept, t)
    BY <2>1 DEF Filled
  <2> QED
    BY <1>2, <2>1, <2>2
<1>4. ASSUME NEW i \in kept .. b, NEW y \in Table, <<i, y>> \in R, i < b
      PROVE  Fill(old, i + 1, y) \in Table /\ Filled(old, t, kept, i + 1, Fill(old, i + 1, y))
  <2>1. Filled(old, t, kept, i, y)
    BY <1>4
  <2>2. i \in Nat /\ kept <= i /\ i + 1 \in PlacesOf(old)
    BY <1>2, <1>4
  <2>3. Filled(old, t, kept, i + 1, Fill(old, i + 1, y))
    BY <1>2, <2>1, <2>2, FillStep
  <2> QED
    BY <2>3 DEF Filled, Sane
<1>5. \A i \in kept .. b, y \in Table :
        <<i, y>> \in R /\ i < b => g[<<i + 1, y>>] \in Table /\ <<i + 1, g[<<i + 1, y>>]>> \in R
  <2> SUFFICES ASSUME NEW i \in kept .. b, NEW y \in Table, <<i, y>> \in R, i < b
               PROVE  g[<<i + 1, y>>] \in Table /\ <<i + 1, g[<<i + 1, y>>]>> \in R
    OBVIOUS
  <2>1. i + 1 \in kept .. b
    BY <1>2
  <2>2. Fill(old, i + 1, y) \in Table /\ Filled(old, t, kept, i + 1, Fill(old, i + 1, y))
    BY <1>4
  <2>3. g[<<i + 1, y>>] = Fill(old, i + 1, y)
    BY <2>1
  <2> QED
    BY <2>1, <2>2, <2>3
<1> HIDE DEF R, g
<1>6. PICK f \in [kept .. b -> Table] : Iterated(f, kept, b, t, g) /\ \A i \in kept .. b : <<i, f[i]>> \in R
  <2>1. PICK S : S = Table
    OBVIOUS
  <2>2. Keeping(kept, b, S, R, t, g)
    BY <1>3, <1>5, <2>1 DEF Keeping
  <2>3. \E f \in [kept .. b -> S] : Iterated(f, kept, b, t, g) /\ \A i \in kept .. b : <<i, f[i]>> \in R
    BY <1>2, <2>2, IterationKeeping
  <2> QED
    BY <2>1, <2>3
<1>7. \A i \in kept .. b : f[i] = IF i = kept THEN t ELSE Fill(old, i, f[i - 1])
  <2> SUFFICES ASSUME NEW i \in kept .. b PROVE f[i] = IF i = kept THEN t ELSE Fill(old, i, f[i - 1])
    OBVIOUS
  <2>1. f[i] = IF i = kept THEN t ELSE g[<<i, f[i - 1]>>]
    BY <1>6, Zenon DEF Iterated
  <2>2. i # kept => i - 1 \in kept .. b
    BY <1>2
  <2>3. i # kept => f[i - 1] \in Table
    BY <1>6, <2>2
  <2>4. i # kept => g[<<i, f[i - 1]>>] = Fill(old, i, f[i - 1])
    BY <2>3 DEF g
  <2> QED
    BY <2>1, <2>4
<1>8. f = [i \in kept .. b |-> IF i = kept THEN t ELSE Fill(old, i, f[i - 1])]
  <2>1. DOMAIN f = kept .. b /\ f = [i \in DOMAIN f |-> f[i]]
    BY <1>6
  <2>2. f = [i \in kept .. b |-> f[i]]
    BY <2>1
  <2> QED
    BY <1>7, <2>2, Zenon
(* The function of Refilled. *)
<1> DEFINE places == sizearray(old) + sizenode(old)
           place(i) == IF i <= sizearray(old) THEN i ELSE places + sizearray(old) + 1 - i
           cleared(s, i) == IF i <= sizearray(old) THEN s ELSE [s EXCEPT !.flags = {}]
           filled == CHOOSE h : h = [i \in kept .. places |->
             IF i = kept THEN t
             ELSE LET s == cleared(h[i - 1], i)
                      key == EntryKey(old, place(i))
                      val == EntryValue(old, place(i))
                  IN IF val = Nil THEN h[i - 1] ELSE Store(Placed(s, key), key, val)]
<1>9. u = filled[places]
  BY Zenon DEF Refilled
<1>10. filled = [i \in kept .. b |-> IF i = kept THEN t ELSE Fill(old, i, filled[i - 1])]
  <2>1. \E h : h = [i \in kept .. b |-> IF i = kept THEN t ELSE Fill(old, i, h[i - 1])]
    BY <1>8
  <2>2. filled = CHOOSE h : h = [i \in kept .. b |-> IF i = kept THEN t ELSE Fill(old, i, h[i - 1])]
    BY <1>1 DEF filled, Fill, SourceOf, Cleared
  <2> HIDE DEF filled
  <2> QED
    BY <2>1, <2>2, Zenon
<1> HIDE DEF filled
<1>11. \A i \in kept .. b : <<i, filled[i]>> \in R
  <2> DEFINE W == {i \in kept .. b : <<i, filled[i]>> \in R}
  <2>1. kept \in W /\ W \in SUBSET (kept .. b)
    <3>1. kept \in kept .. b
      BY <1>2
    <3>2. filled[kept] = t
      BY <1>10, <3>1, Zenon
    <3> QED
      BY <1>3, <3>1, <3>2
  <2>2. ASSUME NEW i \in kept .. b, i \in W, i < b PROVE i + 1 \in W
    <3>1. i + 1 \in kept .. b /\ i + 1 # kept /\ (i + 1) - 1 = i
      BY <1>2, <2>2
    <3>2. filled[i + 1] = Fill(old, i + 1, filled[(i + 1) - 1])
      BY <1>10, <3>1, Zenon
    <3>3. filled[i + 1] = Fill(old, i + 1, filled[i])
      BY <3>1, <3>2
    <3>4. <<i, filled[i]>> \in R /\ filled[i] \in Table
      BY <2>2 DEF R
    <3>5. Fill(old, i + 1, filled[i]) \in Table /\ Filled(old, t, kept, i + 1, Fill(old, i + 1, filled[i]))
      BY <1>4, <2>2, <3>4
    <3> QED
      BY <3>1, <3>3, <3>5 DEF R
  <2>3. kept .. b \subseteq W
    <3> HIDE DEF W
    <3> QED
      BY <1>2, <2>1, <2>2, Upward
  <2> QED
    BY <2>3
<1>12. <<b, filled[b]>> \in R
  <2>1. b \in kept .. b
    BY <1>2
  <2> QED
    BY <1>11, <2>1
<1> QED
  BY <1>1, <1>9, <1>12 DEF R

(* resize: a table in another size has the fields it had, and no other. *)
LEMMA Resized ==
  ASSUME NEW old, Sane(old), NEW nasize \in Nat, nasize <= MAX_INT, NEW nhsize \in Nat,
         NEW room, IsFiniteSet(room), room \subseteq Fields, Needed(old, nasize) \subseteq room,
         Cardinality(room) <= nhsize, NEW u, u = resize(old, nasize, nhsize)
  PROVE  /\ Sane(u) /\ sizearray(u) = nasize /\ u.flags \subseteq old.flags
         /\ \A key \in Places : luaH_get(u, key) = luaH_get(old, key)
         /\ AllKeys(u) \subseteq Needed(old, nasize) /\ nhsize <= sizenode(u) /\ (u.dummy => room = {})
<1>1. PICK s, t : s = setarrayvector(old, nasize) /\ t = setnodevector(s, nhsize)
  OBVIOUS
<1>2. old \in Table /\ sizearray(old) \in Nat /\ sizenode(old) \in Nat
  BY TableParts DEF Sane
<1>3. /\ s \in Table /\ sizearray(s) = nasize /\ s.flags = old.flags
      /\ \A i \in 1 .. nasize : s.array[i] = IF i <= sizearray(old) THEN old.array[i] ELSE Nil
  <2>1. s = setarrayvector(old, nasize) /\ old \in Table
    BY <1>1, <1>2
  <2>2. /\ s \in Table /\ sizearray(s) = nasize /\ s.flags = old.flags
    BY <2>1, NewArray
  <2>3. \A i \in 1 .. nasize : s.array[i] = IF i <= sizearray(old) THEN old.array[i] ELSE Nil
    BY <2>1, NewArray
  <2> QED
    BY <2>2, <2>3
<1>4. \A i \in 1 .. sizearray(s) : s.array[i] # Nil => Num(i) \in Fields
  <2> SUFFICES ASSUME NEW i \in 1 .. nasize, s.array[i] # Nil PROVE Num(i) \in Fields
    BY <1>3
  <2>1. i \in 1 .. sizearray(old) /\ s.array[i] = old.array[i]
    BY <1>2, <1>3
  <2> QED
    BY <2>1 DEF Sane
<1>5. /\ Sane(t) /\ t.array = s.array /\ t.flags = s.flags /\ (t.dummy <=> nhsize = 0)
      /\ nhsize <= sizenode(t) /\ \A n \in 1 .. sizenode(t) : t.node[n] = FreeNode
  BY <1>1, <1>3, <1>4, FreshNodes
<1>6. sizearray(t) = nasize /\ t \in Table /\ sizenode(t) \in Nat
  BY <1>3, <1>5, TableParts DEF sizearray, Sane
<1>7. AllKeys(t) = {}
  BY <1>5 DEF AllKeys, FreeNode
<1>8. Cardinality(room) \in Nat /\ Cardinality(room) <= sizenode(t) /\ (t.dummy => room = {})
  <2>1. Cardinality(room) \in Nat
    BY FS_CardinalityType
  <2>2. Cardinality(room) = 0 => room = {}
    BY FS_EmptySet
  <2> QED
    BY <1>5, <1>6, <2>1, <2>2
<1>9. PICK kept : kept = (IF sizearray(t) < sizearray(old) THEN sizearray(t) ELSE sizearray(old))
  OBVIOUS
<1>10. u = Refilled(t, old)
  BY <1>1 DEF resize
<1>11. Filled(old, t, kept, sizearray(old) + sizenode(old), u)
  BY <1>3, <1>5, <1>6, <1>7, <1>8, <1>9, <1>10, Refill
<1>12. /\ Sane(u) /\ sizearray(u) = nasize /\ u.flags \subseteq old.flags
       /\ AllKeys(u) \subseteq Needed(old, nasize) /\ nhsize <= sizenode(u) /\ (u.dummy => room = {})
  BY <1>5, <1>6, <1>8, <1>11 DEF Filled
<1>13. ASSUME NEW key \in Places PROVE luaH_get(u, key) = luaH_get(old, key)
  <2>a. kept \in Nat /\ PlacesOf(old) = 1 .. sizearray(old) + sizenode(old)
    BY <1>2, <1>6, <1>9 DEF PlacesOf
  <2>1. CASE \E j \in kept + 1 .. sizearray(old) + sizenode(old) :
               EntryValue(old, SourceOf(old, j)) # Nil /\ EntryKey(old, SourceOf(old, j)) = key
    <3>1. PICK j \in kept + 1 .. sizearray(old) + sizenode(old) :
                 EntryValue(old, SourceOf(old, j)) # Nil /\ EntryKey(old, SourceOf(old, j)) = key
      BY <2>1
    <3>2. luaH_get(u, key) = EntryValue(old, SourceOf(old, j))
      BY <1>11, <3>1 DEF Filled
    <3>3. SourceOf(old, j) \in PlacesOf(old)
      <4>1. j \in PlacesOf(old)
        BY <2>a
      <4> QED
        BY <4>1, Sources
    <3>4. luaH_get(old, key) = EntryValue(old, SourceOf(old, j))
      BY <3>1, <3>3, PlaceGot
    <3> QED
      BY <3>2, <3>4
  <2>2. CASE \A j \in kept + 1 .. sizearray(old) + sizenode(old) :
               EntryValue(old, SourceOf(old, j)) # Nil => EntryKey(old, SourceOf(old, j)) # key
    <3>1. luaH_get(u, key) = luaH_get(t, key)
      BY <1>11, <2>2 DEF Filled
    <3>2. luaH_get(t, key) = luaH_get(old, key)
      <4>1. CASE InArray(t, key)
        <5>1. IsNumber(key) /\ key[2] \in 1 .. nasize
          BY <1>6, <4>1 DEF InArray, arrayindex
        <5>2. luaH_get(t, key) = s.array[key[2]]
          BY <1>5, <4>1, Getting
        <5>3. CASE key[2] <= sizearray(old)
          <6>1. InArray(old, key)
            BY <1>2, <5>1, <5>3 DEF InArray, arrayindex
          <6> QED
            BY <1>3, <5>1, <5>2, <5>3, <6>1, Getting
        <5>4. CASE ~(key[2] <= sizearray(old))
          <6>1. luaH_get(t, key) = Nil
            BY <1>3, <5>1, <5>2, <5>4
          <6>2. ASSUME luaH_get(old, key) # Nil PROVE FALSE
            <7>1. PICK q \in PlacesOf(old) : EntryKey(old, q) = key /\ EntryValue(old, q) # Nil
              BY <6>2, PlaceGot
            <7>2. PICK j \in PlacesOf(old) : SourceOf(old, j) = q /\ (j <= sizearray(old) <=> q <= sizearray(old))
              BY Sources
            <7>3. ~(q <= sizearray(old))
              <8>1. q <= sizearray(old) => key = Num(q)
                BY <7>1 DEF EntryKey
              <8> QED
                BY <5>4, <8>1, KeysNumbered
            <7>4. j \in kept + 1 .. sizearray(old) + sizenode(old)
              BY <1>2, <1>6, <1>9, <2>a, <7>2, <7>3
            <7> QED
              BY <2>2, <7>1, <7>2, <7>4
          <6> QED
            BY <6>1, <6>2
        <5> QED
          BY <5>3, <5>4
      <4>2. CASE ~InArray(t, key)
        <5>1. luaH_get(t, key) = Nil
          BY <1>5, <4>2, Getting, PlacesKeys DEF FreeNode
        <5>2. ASSUME luaH_get(old, key) # Nil PROVE FALSE
          <6>1. PICK q \in PlacesOf(old) : EntryKey(old, q) = key /\ EntryValue(old, q) # Nil
            BY <5>2, PlaceGot
          <6>2. PICK j \in PlacesOf(old) : SourceOf(old, j) = q /\ (j <= sizearray(old) => j = q)
            <7>1. SourceOf(old, SourceOf(old, q)) = q /\ SourceOf(old, q) \in PlacesOf(old)
              BY Sources
            <7>2. SourceOf(old, q) <= sizearray(old) => SourceOf(old, q) = q
              BY <7>1, Sources DEF SourceOf
            <7> QED
              BY <7>1, <7>2
          <6>3. ~(j <= kept)
            <7> SUFFICES ASSUME j <= kept PROVE FALSE
              OBVIOUS
            <7>1. j <= sizearray(old) /\ j <= nasize /\ j \in 1 .. nasize
              BY <1>2, <1>6, <1>9, <2>a
            <7>2. key = Num(j)
              BY <6>1, <6>2, <7>1 DEF EntryKey
            <7> QED
              BY <1>6, <4>2, <7>1, <7>2, KeysNumbered DEF InArray
          <6>4. j \in kept + 1 .. sizearray(old) + sizenode(old)
            BY <2>a, <6>3
          <6> QED
            BY <2>2, <6>1, <6>2, <6>4
        <5> QED
          BY <5>1, <5>2
      <4> QED
        BY <4>1, <4>2
    <3> QED
      BY <3>1, <3>2
  <2> QED
    BY <2>1, <2>2
<1> QED
  BY <1>12, <1>13

--------------------------------------------------------------------------------
(* Rehashing, and the functions that make a place for a key. *)
(* The keys of a table, and the one that is added, are finitely many *)
(* fields.                                                           *)
LEMMA KeysFinite ==
  ASSUME NEW t, Sane(t), NEW ek \in Fields, NEW keys, keys = Keys(t) \cup {ek}
  PROVE  IsFiniteSet(keys) /\ keys \subseteq Fields
<1>1. t \in Table /\ sizearray(t) \in Nat /\ sizenode(t) \in Nat
  BY TableParts DEF Sane
<1>2. PICK f, T : f = [i \in PlacesOf(t) |-> EntryKey(t, i)] /\ T = {f[i] : i \in PlacesOf(t)}
  OBVIOUS
<1>3. IsFiniteSet(T)
  <2>1. f \in Surjection(PlacesOf(t), T)
    BY <1>2 DEF Surjection
  <2>2. IsFiniteSet(PlacesOf(t))
    BY <1>1, FS_Interval DEF PlacesOf
  <2> QED
    BY <2>1, <2>2, FS_Surjection
<1>4. Keys(t) \subseteq T /\ Keys(t) \subseteq Fields
  <2> SUFFICES ASSUME NEW key \in Keys(t) PROVE key \in T /\ key \in Fields
    OBVIOUS
  <2>1. CASE key \in {Num(i) : i \in ArrayKeys(t)}
    <3>1. PICK i \in 1 .. sizearray(t) : key = Num(i) /\ t.array[i] # Nil
      BY <2>1 DEF ArrayKeys
    <3>2. i \in PlacesOf(t) /\ EntryKey(t, i) = key
      BY <1>1, <3>1 DEF PlacesOf, EntryKey
    <3>3. key \in Fields
      BY <3>1 DEF Sane
    <3> QED
      BY <1>2, <3>2, <3>3
  <2>2. CASE key \in {t.node[n].key : n \in UsedNodes(t)}
    <3>1. PICK n \in 1 .. sizenode(t) : key = t.node[n].key /\ t.node[n].val # Nil
      BY <2>2 DEF UsedNodes
    <3>2. PICK i : i = sizearray(t) + n
      OBVIOUS
    <3>3. i \in PlacesOf(t) /\ ~(i <= sizearray(t)) /\ i - sizearray(t) = n
      BY <1>1, <3>2 DEF PlacesOf
    <3>4. EntryKey(t, i) = key
      BY <3>1, <3>3 DEF EntryKey
    <3>5. key \in Fields
      BY <3>1 DEF Sane
    <3> QED
      BY <1>2, <3>3, <3>4, <3>5
  <2> QED
    BY <2>1, <2>2 DEF Keys
<1>5. IsFiniteSet(Keys(t))
  BY <1>3, <1>4, FS_Subset
<1>6. IsFiniteSet(Keys(t) \cup {ek})
  BY <1>5, FS_AddElement
<1> QED
  BY <1>4, <1>6

(* computesizes: the size of the array that a rehash decides on is within *)
(* the integers.                                                          *)
LEMMA SizeComputed ==
  ASSUME NEW indices, indices \subseteq 1 .. MAXASIZE,
         NEW size, size = computesizes(indices, Cardinality(indices))
  PROVE  IsFiniteSet(indices) /\ size \in Nat /\ size <= MAX_INT
<1>1. PICK c : c = Cardinality(indices)
  OBVIOUS
<1>2. IsFiniteSet(indices) /\ c \in Nat /\ c <= MAXASIZE
  <2>1. IsFiniteSet(1 .. MAXASIZE) /\ Cardinality(1 .. MAXASIZE) = MAXASIZE
    BY FS_Interval, SizesAssumption
  <2>2. IsFiniteSet(indices) /\ Cardinality(indices) <= Cardinality(1 .. MAXASIZE)
    BY <2>1, FS_Subset
  <2> QED
    BY <1>1, <2>1, <2>2, FS_CardinalityType
<1>3. CeilLog2(c) \in Nat
  <2>1. CASE c = 0
    <3>1. CeilLog2(0) \in 0 .. 0
      <4>1. \E i \in 0 .. 0 : 0 <= twoto[i] /\ (i > 0 => twoto[i - 1] < 0)
        BY Twoto
      <4> QED
        BY <4>1 DEF CeilLog2
    <3> QED
      BY <2>1, <3>1
  <2>2. CASE c # 0
    BY <1>2, <2>2, CeilLog
  <2> QED
    BY <2>1, <2>2
<1>4. PICK S : S = {m \in {twoto[i] : i \in 0 .. CeilLog2(c) + 1} :
                     m \div 2 < c /\ Within(indices, m) > m \div 2}
  OBVIOUS
<1>5. S \in SUBSET (0 .. 2 * c)
  <2> SUFFICES ASSUME NEW m \in S PROVE m \in 0 .. 2 * c
    OBVIOUS
  <2>1. PICK i \in 0 .. CeilLog2(c) + 1 : m = twoto[i]
    BY <1>4
  <2>2. i \in Nat
    BY <1>3
  <2>3. m \in Nat
    BY <2>1, <2>2, Twoto
  <2>4. m \div 2 < c
    BY <1>4
  <2> QED
    BY <1>2, <2>3, <2>4
<1>6. size = GreatestOf(S)
  BY <1>1, <1>4 DEF computesizes
<1>7. size \in 0 .. 2 * c
  <2>1. CASE S = {}
    BY <1>2, <1>6, <2>1 DEF GreatestOf
  <2>2. CASE S # {}
    <3>1. 2 * c \in Nat
      BY <1>2
    <3>2. size \in S
      BY <1>5, <1>6, <2>2, <3>1, Greatest
    <3> QED
      BY <1>5, <3>2
  <2> QED
    BY <2>1, <2>2
<1> QED
  BY <1>2, <1>7, SizesAssumption

(* The keys that are not for the array are as many as the nodes that are *)
(* made.                                                                 *)
LEMMA Fitting ==
  ASSUME NEW keys, IsFiniteSet(keys), keys \subseteq Fields,
         NEW indices, indices = Indices(keys), NEW nasize \in Nat,
         NEW room, room = {k \in keys : arrayindex(k) \notin 1 .. nasize}
  PROVE  /\ IsFiniteSet(room) /\ Cardinality(keys) - Within(indices, nasize) \in Nat
         /\ Cardinality(room) <= Cardinality(keys) - Within(indices, nasize)
<1>1. PICK A, W : A = {k \in keys : arrayindex(k) \in 1 .. nasize} /\ W = {i \in indices : i <= nasize}
  OBVIOUS
<1>2. room = keys \ A /\ keys \cap A = A /\ A \in SUBSET keys
  BY <1>1
<1>3. Cardinality(room) = Cardinality(keys) - Cardinality(A) /\ IsFiniteSet(room) /\ IsFiniteSet(A)
  BY <1>2, FS_Difference, FS_Subset
<1>4. PICK f : f = [i \in W |-> Num(i)]
  OBVIOUS
<1>5. ASSUME NEW i \in W PROVE Num(i) \in A
  <2>1. PICK k \in keys : i = arrayindex(k) /\ i \in 1 .. MAXASIZE
    BY <1>1 DEF Indices
  <2>2. i \in Nat /\ i # 0 /\ i <= nasize
    BY <1>1, <2>1, SizesAssumption
  <2>3. IsNumber(k) /\ i = k[2]
    BY <2>1, <2>2 DEF arrayindex
  <2>4. k = Num(i)
    BY <2>3, KeysNumbered
  <2>5. arrayindex(Num(i)) = i
    BY KeysNumbered
  <2> QED
    BY <1>1, <2>1, <2>2, <2>4, <2>5
<1>6. f \in Injection(W, A)
  <2>1. f \in [W -> A]
    BY <1>4, <1>5
  <2>2. \A a, b \in W : f[a] = f[b] => a = b
    BY <1>4, KeysNumbered
  <2> QED
    BY <2>1, <2>2 DEF Injection, IsInjective
<1>7. Cardinality(W) <= Cardinality(A) /\ IsFiniteSet(W)
  BY <1>3, <1>6, FS_Injection
<1>8. /\ Cardinality(W) \in Nat /\ Cardinality(A) \in Nat /\ Cardinality(keys) \in Nat
      /\ Cardinality(room) \in Nat
  BY <1>3, <1>7, FS_CardinalityType
<1>9. Within(indices, nasize) = Cardinality(W)
  BY <1>1 DEF Within
<1> QED
  BY <1>3, <1>7, <1>8, <1>9

(* rehash: all fields stay as they were, and there is room for the key it *)
(* was called for.                                                        *)
LEMMA Rehashing ==
  ASSUME NEW t, Sane(t), NEW ek \in Fields, NEW u, u = rehash(t, ek),
         NEW v, v = u \/ v = [u EXCEPT !.flags = {}]
  PROVE  /\ Sane(v) /\ v.flags \subseteq t.flags
         /\ \A key \in Places : luaH_get(v, key) = luaH_get(t, key)
         /\ Present(v, ek) \/ ~Crowded(v, ek)
<1>1. PICK keys, indices : keys = Keys(t) \cup {ek} /\ indices = Indices(keys)
  OBVIOUS
<1>2. PICK nasize : nasize = computesizes(indices, Cardinality(indices))
  OBVIOUS
<1>3. PICK room : room = {k \in keys : arrayindex(k) \notin 1 .. nasize}
  OBVIOUS
<1>4. PICK nhsize : nhsize = Cardinality(keys) - Within(indices, nasize)
  OBVIOUS
<1>5. IsFiniteSet(keys) /\ keys \subseteq Fields
  BY <1>1, KeysFinite
<1>6. nasize \in Nat /\ nasize <= MAX_INT
  <2>1. indices \subseteq 1 .. MAXASIZE
    BY <1>1 DEF Indices
  <2> QED
    BY <1>2, <2>1, SizeComputed
<1>7. IsFiniteSet(room) /\ nhsize \in Nat /\ Cardinality(room) <= nhsize /\ room \subseteq Fields
  BY <1>1, <1>3, <1>4, <1>5, <1>6, Fitting
<1>8. Needed(t, nasize) \subseteq room
  <2> SUFFICES ASSUME NEW i \in PlacesOf(t), EntryValue(t, i) # Nil,
                      arrayindex(EntryKey(t, i)) \notin 1 .. nasize
               PROVE  EntryKey(t, i) \in room
    BY DEF Needed
  <2>1. sizearray(t) \in Nat /\ sizenode(t) \in Nat
    BY TableParts DEF Sane
  <2>2. EntryKey(t, i) \in Keys(t)
    <3>1. CASE i <= sizearray(t)
      <4>1. i \in ArrayKeys(t) /\ EntryKey(t, i) = Num(i)
        BY <2>1, <3>1 DEF PlacesOf, ArrayKeys, EntryValue, EntryKey
      <4> QED
        BY <4>1 DEF Keys
    <3>2. CASE ~(i <= sizearray(t))
      <4>1. i - sizearray(t) \in UsedNodes(t) /\ EntryKey(t, i) = t.node[i - sizearray(t)].key
        BY <2>1, <3>2 DEF PlacesOf, UsedNodes, EntryValue, EntryKey
      <4> QED
        BY <4>1 DEF Keys
    <3> QED
      BY <3>1, <3>2
  <2> QED
    BY <1>1, <1>3, <2>2
<1>9. u = resize(t, nasize, nhsize)
  BY <1>1, <1>2, <1>4 DEF rehash, Rehashed, Counted, Distributed
<1>10. /\ Sane(u) /\ sizearray(u) = nasize /\ u.flags \subseteq t.flags
       /\ \A key \in Places : luaH_get(u, key) = luaH_get(t, key)
       /\ AllKeys(u) \subseteq Needed(t, nasize) /\ nhsize <= sizenode(u) /\ (u.dummy => room = {})
  BY <1>6, <1>7, <1>8, <1>9, Resized
<1>11. /\ Sane(v) /\ sizearray(v) = nasize /\ v.flags \subseteq t.flags
       /\ \A key \in Places : luaH_get(v, key) = luaH_get(t, key)
       /\ AllKeys(v) \subseteq room /\ nhsize <= sizenode(v) /\ (v.dummy => room = {})
  <2>1. CASE v = u
    BY <1>8, <1>10, <2>1
  <2>2. CASE v = [u EXCEPT !.flags = {}]
    <3>1. /\ Sane(v) /\ v.flags = {} /\ v.dummy = u.dummy
          /\ sizenode(v) = sizenode(u) /\ sizearray(v) = sizearray(u)
          /\ AllKeys(v) = AllKeys(u) /\ \A key \in Places : luaH_get(v, key) = luaH_get(u, key)
      BY <1>10, <2>2, OtherFlags
    <3> QED
      BY <1>8, <1>10, <3>1
  <2> QED
    BY <2>1, <2>2
<1>12. Present(v, ek) \/ ~Crowded(v, ek)
  <2>1. CASE arrayindex(ek) \in 1 .. nasize
    <3>1. InArray(v, ek)
      BY <1>11, <2>1 DEF InArray
    <3> QED
      BY <1>11, <3>1, PresentIs
  <2>2. CASE arrayindex(ek) \notin 1 .. nasize
    <3>1. ek \in room
      BY <1>1, <1>3, <2>2
    <3>2. ~v.dummy
      BY <1>11, <3>1
    <3>3. Cardinality(room) <= sizenode(v)
      <4>1. Cardinality(room) \in Nat /\ sizenode(v) \in Nat
        BY <1>7, <1>11, FS_CardinalityType, TableParts DEF Sane
      <4> QED
        BY <1>7, <1>11, <4>1
    <3> QED
      BY <1>7, <1>11, <3>1, <3>2, <3>3, Room
  <2> QED
    BY <2>1, <2>2
<1> QED
  BY <1>11, <1>12

(* luaH_setnum makes a place for a key and changes no field. *)
LEMMA NumberSet ==
  ASSUME NEW t, Sane(t), NEW key \in Fields, NEW u, u = luaH_setnum(t, key)
  PROVE  /\ Sane(u) /\ Present(u, key) /\ u.flags \subseteq t.flags
         /\ \A k \in Places : luaH_get(u, k) = luaH_get(t, k)
         /\ Present(t, key) => u = t
<1>1. CASE Present(t, key)
  BY <1>1 DEF luaH_setnum
<1>2. CASE ~Present(t, key) /\ Crowded(t, key)
  <2>1. PICK v : v = [rehash(t, key) EXCEPT !.flags = {}]
    OBVIOUS
  <2>2. /\ Sane(v) /\ v.flags \subseteq t.flags
        /\ \A k \in Places : luaH_get(v, k) = luaH_get(t, k)
        /\ Present(v, key) \/ ~Crowded(v, key)
    BY <2>1, Rehashing
  <2>3. u = Placed(v, key)
    BY <1>2, <2>1 DEF luaH_setnum, newkey
  <2>4. Placing(v, u, key)
    BY <2>2, <2>3, KeyPlaced
  <2>5. \A k \in Places : luaH_get(u, k) = luaH_get(v, k)
    BY <2>2, <2>4, SameView DEF Placing
  <2> QED
    BY <1>2, <2>2, <2>4, <2>5 DEF Placing
<1>3. CASE ~Present(t, key) /\ ~Crowded(t, key)
  <2>1. u = Placed(t, key)
    BY <1>3 DEF luaH_setnum, newkey
  <2>2. Placing(t, u, key)
    BY <1>3, <2>1, KeyPlaced
  <2>3. \A k \in Places : luaH_get(u, k) = luaH_get(t, k)
    BY <2>2, SameView DEF Placing
  <2> QED
    BY <1>3, <2>2, <2>3 DEF Placing
<1> QED
  BY <1>1, <1>2, <1>3

(* luaH_set does so too, and forgets which events were noted as absent. *)
LEMMA KeySet ==
  ASSUME NEW t, Sane(t), NEW key \in Fields, NEW u, u = luaH_set(t, key)
  PROVE  /\ Sane(u) /\ Present(u, key) /\ u.flags = {}
         /\ \A k \in Places : luaH_get(u, k) = luaH_get(t, k)
         /\ Present(t, key) => u = [t EXCEPT !.flags = {}]
<1>1. PICK v : v = [t EXCEPT !.flags = {}]
  OBVIOUS
<1>2. /\ Sane(v) /\ v.flags = {} /\ \A k \in Places : luaH_get(v, k) = luaH_get(t, k)
      /\ Present(v, key) = Present(t, key)
  BY <1>1, OtherFlags
<1>3. u = luaH_setnum(v, key)
  BY <1>1 DEF luaH_set
<1>4. /\ Sane(u) /\ Present(u, key) /\ u.flags \subseteq v.flags
      /\ \A k \in Places : luaH_get(u, k) = luaH_get(v, k)
      /\ Present(v, key) => u = v
  BY <1>2, <1>3, NumberSet
<1> QED
  BY <1>1, <1>2, <1>4

(* luaH_resizearray, for a longer array, changes no field. *)
LEMMA Growing ==
  ASSUME NEW t, Sane(t), NEW n \in 1 .. MAXASIZE, n > sizearray(t), NEW u, u = luaH_resizearray(t, n)
  PROVE  /\ Sane(u) /\ u.flags \subseteq t.flags
         /\ \A k \in Places : luaH_get(u, k) = luaH_get(t, k)
<1>1. PICK room, nhsize : room = Needed(t, n) /\ nhsize = IF t.dummy THEN 0 ELSE sizenode(t)
  OBVIOUS
<1>2. /\ t \in Table /\ sizearray(t) \in Nat /\ sizenode(t) \in Nat /\ t.dummy \in BOOLEAN
      /\ n \in Nat /\ n <= MAX_INT
  BY TableParts, SizesAssumption DEF Sane
<1>3. PICK N, f, T : N = 1 .. sizenode(t) /\ f = [m \in N |-> t.node[m].key] /\ T = {f[m] : m \in N}
  <2>1. PICK N : N = 1 .. sizenode(t)
    OBVIOUS
  <2>2. PICK f : f = [m \in N |-> t.node[m].key]
    OBVIOUS
  <2>3. PICK T : T = {f[m] : m \in N}
    OBVIOUS
  <2> QED
    BY <2>1, <2>2, <2>3
<1>4. IsFiniteSet(T) /\ Cardinality(T) <= sizenode(t)
  <2>1. IsFiniteSet(N) /\ Cardinality(N) = sizenode(t)
    BY <1>2, <1>3, FS_Interval
  <2>2. f \in Surjection(N, T)
    BY <1>3 DEF Surjection
  <2>3. IsFiniteSet(T) /\ Cardinality(T) <= Cardinality(N)
    BY <2>1, <2>2, FS_Surjection
  <2> QED
    BY <2>1, <2>3
<1>5. ASSUME NEW i \in PlacesOf(t), EntryValue(t, i) # Nil, arrayindex(EntryKey(t, i)) \notin 1 .. n
      PROVE  EntryKey(t, i) \in T /\ EntryKey(t, i) \in Fields /\ ~t.dummy
  <2>1. ~(i <= sizearray(t))
    <3> SUFFICES ASSUME i <= sizearray(t) PROVE FALSE
      OBVIOUS
    <3>1. i \in 1 .. n
      BY <1>2 DEF PlacesOf
    <3>2. EntryKey(t, i) = Num(i) /\ arrayindex(Num(i)) = i
      BY KeysNumbered DEF EntryKey
    <3> QED
      BY <1>5, <3>1, <3>2
  <2>2. PICK m : m = i - sizearray(t)
    OBVIOUS
  <2>3. m \in N
    BY <1>2, <1>3, <2>1, <2>2 DEF PlacesOf
  <2>4. EntryKey(t, i) = t.node[m].key /\ t.node[m].val # Nil
    BY <1>5, <2>1, <2>2 DEF EntryKey, EntryValue
  <2>5. EntryKey(t, i) \in Fields
    BY <1>3, <2>3, <2>4 DEF Sane
  <2>6. ~t.dummy
    <3> SUFFICES ASSUME t.dummy PROVE FALSE
      OBVIOUS
    <3>1. t.node = <<FreeNode>>
      BY DEF Sane
    <3>2. sizenode(t) = 1 /\ m = 1
      BY <1>3, <2>3, <3>1 DEF sizenode
    <3> QED
      BY <2>4, <3>1, <3>2 DEF FreeNode
  <2> QED
    BY <1>3, <2>3, <2>4, <2>5, <2>6
<1>6. room \subseteq T /\ room \subseteq Fields /\ (t.dummy => room = {})
  BY <1>1, <1>5 DEF Needed
<1>7. IsFiniteSet(room) /\ Cardinality(room) \in Nat /\ Cardinality(room) <= Cardinality(T)
  BY <1>4, <1>6, FS_Subset, FS_CardinalityType
<1>8. nhsize \in Nat /\ Cardinality(room) <= nhsize
  <2>1. CASE t.dummy
    BY <1>1, <1>6, <2>1, FS_EmptySet
  <2>2. CASE ~t.dummy
    <3>1. Cardinality(T) \in Nat
      BY <1>4, FS_CardinalityType
    <3> QED
      BY <1>1, <1>2, <1>4, <1>7, <2>2, <3>1
  <2> QED
    BY <2>1, <2>2
<1>9. u = resize(t, n, nhsize)
  BY <1>1 DEF luaH_resizearray
<1>10. Needed(t, n) \subseteq room
  BY <1>1
<1> QED
  BY <1>2, <1>6, <1>7, <1>8, <1>9, <1>10, Resized

--------------------------------------------------------------------------------
(* The collector, and findindex. *)
(* What the collector makes a dead key of was a field. *)
LEMMA Collectable == \A key \in Key : iscollectable(key) => key \in Fields
<1>1. \A key \in DeadFields : key[1] = "dead"
  BY DEF DeadFields, Dead
<1>2. Nil[1] = "nil"
  BY DEF Nil
<1> QED
  BY <1>1, <1>2 DEF Key, iscollectable

(* The collector goes over the table. *)
Collecting(t, u) ==
  /\ Sane(u) /\ sizearray(u) = sizearray(t) /\ sizenode(u) = sizenode(t) /\ u.flags = t.flags
  /\ Nexts(u) = Nexts(t)
  /\ \A i \in PlacesOf(t) :
       /\ EntryValue(u, i) = EntryValue(t, i)
       /\ EntryValue(t, i) # Nil => EntryKey(u, i) = EntryKey(t, i)
  /\ \A key \in Fields : Remembering(u, key) = Remembering(t, key)
  /\ \A key \in Places : luaH_get(u, key) = luaH_get(t, key)

(* traversetable: entries without a value may lose their keys; no field *)
(* changes, and next still finds where it was.                          *)
LEMMA Collected ==
  ASSUME NEW t, Sane(t), NEW u, u = traversetable(t)
  PROVE  Collecting(t, u)
<1>1. PICK N, f : N = sizenode(t) /\ f = [n \in 1 .. sizenode(t) |-> removeentry(t.node[n])]
  OBVIOUS
<1>2. /\ t \in Table /\ N \in Nat /\ N > 0 /\ sizearray(t) \in Nat /\ t.lastfree \in Nat
      /\ t.node \in [1 .. N -> Node] /\ \A n \in 1 .. N : t.node[n] \in Node
  BY <1>1, TableParts DEF Sane
<1>3. ASSUME NEW n \in 1 .. N
      PROVE  /\ f[n] \in Node /\ f[n].val = t.node[n].val /\ f[n].next = t.node[n].next
             /\ f[n].key = IF t.node[n].val = Nil /\ iscollectable(t.node[n].key)
                           THEN Dead(t.node[n].key) ELSE t.node[n].key
  <2>1. t.node[n] \in Node /\ f[n] = removeentry(t.node[n])
    BY <1>1, <1>2, <1>3
  <2>2. CASE t.node[n].val = Nil /\ iscollectable(t.node[n].key)
    <3>1. Dead(t.node[n].key) \in Key
      <4>1. t.node[n].key \in Key
        BY <2>1 DEF Node
      <4> QED
        BY <2>2, <4>1, Collectable DEF Key, DeadFields
    <3>2. f[n] = [t.node[n] EXCEPT !.key = Dead(t.node[n].key)]
      BY <2>1, <2>2 DEF removeentry
    <3> QED
      BY <2>1, <2>2, <3>1, <3>2 DEF Node
  <2>3. CASE ~(t.node[n].val = Nil /\ iscollectable(t.node[n].key))
    <3>1. f[n] = t.node[n]
      BY <2>1, <2>3 DEF removeentry
    <3> QED
      BY <2>1, <2>3, <3>1
  <2> QED
    BY <2>2, <2>3
<1>4. f \in [1 .. N -> Node]
  BY <1>1, <1>3
<1>5. u = [t EXCEPT !.node = f, !.lastfree = t.lastfree]
  <2>1. u = [t EXCEPT !.node = f]
    BY <1>1, Zenon DEF traversetable
  <2> QED
    BY <1>2, <2>1 DEF Table
<1>6. PICK K, J, V, nx : /\ K = KeysOf(t) /\ J = [n \in 1 .. N |-> f[n].key]
                         /\ V = ValuesOf(t) /\ nx = Nexts(t)
  OBVIOUS
<1>7. V = [n \in 1 .. N |-> f[n].val] /\ nx = [n \in 1 .. N |-> f[n].next]
  BY <1>1, <1>3, <1>6 DEF ValuesOf, Nexts
<1>8. Became(u, t, J, V, nx, t.lastfree)
  <2>1. f \in [1 .. sizenode(t) -> Node] /\ J = [n \in 1 .. sizenode(t) |-> f[n].key]
    BY <1>1, <1>4, <1>6
  <2>2. V = [n \in 1 .. sizenode(t) |-> f[n].val] /\ nx = [n \in 1 .. sizenode(t) |-> f[n].next]
    BY <1>1, <1>7
  <2> QED
    BY <1>2, <1>5, <2>1, <2>2, NodesBecame
<1>9. /\ u \in Table /\ u.array = t.array /\ u.dummy = t.dummy /\ u.flags = t.flags
      /\ sizenode(u) = N /\ u.lastfree = t.lastfree /\ KeysOf(u) = J /\ ValuesOf(u) = V /\ Nexts(u) = nx
  BY <1>1, <1>8 DEF Became
<1>10. \A n \in 1 .. N : /\ K[n] = t.node[n].key /\ V[n] = t.node[n].val /\ K[n] \in Key
                         /\ J[n] = u.node[n].key /\ V[n] = u.node[n].val
                         /\ J[n] = IF V[n] = Nil /\ iscollectable(K[n]) THEN Dead(K[n]) ELSE K[n]
  <2>1. \A n \in 1 .. N : K[n] = t.node[n].key /\ V[n] = t.node[n].val /\ K[n] \in Key
    BY <1>1, <1>2, <1>6, NodeFacts DEF Node
  <2>2. \A n \in 1 .. N : J[n] = u.node[n].key /\ V[n] = u.node[n].val
    BY <1>9, NodeFacts
  <2> QED
    BY <1>3, <1>6, <2>1, <2>2
<1>11. \A n \in 1 .. N : J[n] = K[n] \/ (K[n] \in Fields /\ J[n] = Dead(K[n]) /\ V[n] = Nil /\ iscollectable(K[n]))
  <2> SUFFICES ASSUME NEW n \in 1 .. N, J[n] # K[n]
               PROVE  K[n] \in Fields /\ J[n] = Dead(K[n]) /\ V[n] = Nil /\ iscollectable(K[n])
    BY DEF iscollectable
  <2>1. K[n] \in Key /\ J[n] = Dead(K[n]) /\ V[n] = Nil /\ iscollectable(K[n])
    BY <1>10
  <2> QED
    BY <2>1, Collectable
<1>12. \A n \in 1 .. N : J[n] \in Fields => J[n] = K[n]
  BY <1>11, NotDead
<1>13. \A n \in 1 .. N : V[n] # Nil => J[n] = K[n]
  BY <1>11
<1>14. Sane(u)
  <2>1. CASE ~t.dummy
    <3>1. Chains(J, nx, Home(t), N)
      <4>1. Chains(K, nx, Home(t), N)
        BY <1>1, <1>6 DEF Sane
      <4>2. J \in [1 .. N -> Fields \cup DeadFields \cup {Nil}]
        BY <1>3, <1>6 DEF Node, Key
      <4>3. \A n \in 1 .. N : J[n] = K[n] \/ (K[n] \in Fields /\ J[n] = Dead(K[n]))
        BY <1>11
      <4> QED
        BY <1>2, <4>1, <4>2, <4>3, ChainsCollected
    <3>2. \A n \in 1 .. N : J[n] \notin Fields => V[n] = Nil
      <4>1. \A n \in 1 .. N : K[n] \notin Fields => V[n] = Nil
        BY <1>1, <1>10 DEF Sane
      <4> QED
        BY <1>11, <4>1
    <3>3. \A n \in 1 .. N : J[n] \in Fields => ~InArray(t, J[n])
      <4>1. \A n \in 1 .. N : K[n] \in Fields => ~InArray(t, K[n])
        BY <1>1, <1>10 DEF Sane
      <4> QED
        BY <1>12, <4>1
    <3>4. t.lastfree \in 1 .. N + 1 /\ \A n \in t.lastfree .. N : J[n] # Nil
      <4>1. t.lastfree \in 1 .. N + 1 /\ \A n \in t.lastfree .. N : t.node[n].key # Nil
        BY <1>1, <2>1 DEF Sane
      <4>2. \A n \in t.lastfree .. N : n \in 1 .. N
        BY <1>2, <4>1
      <4>3. \A n \in 1 .. N : K[n] # Nil => J[n] # Nil
        BY <1>11, KeyKinds DEF DeadFields
      <4> QED
        BY <1>10, <4>1, <4>2, <4>3
    <3> QED
      BY <1>1, <1>9, <2>1, <3>1, <3>2, <3>3, <3>4, SaneFrom
  <2>2. CASE t.dummy
    <3>1. t.node = <<FreeNode>>
      BY <2>2 DEF Sane
    <3>2. removeentry(FreeNode) = FreeNode
      BY DEF removeentry, iscollectable, FreeNode, Nil
    <3>3. N = 1 /\ f = <<FreeNode>>
      BY <1>1, <3>1, <3>2 DEF sizenode
    <3>4. u = [t EXCEPT !.node = t.node]
      BY <1>1, <3>1, <3>3, Zenon DEF traversetable
    <3>5. u = t
      BY <1>2, <3>4 DEF Table
    <3> QED
      BY <3>5
  <2> QED
    BY <2>1, <2>2
<1>15. sizearray(u) = sizearray(t)
  BY <1>9 DEF sizearray
<1>16. ASSUME NEW i \in PlacesOf(t)
       PROVE  /\ EntryValue(u, i) = EntryValue(t, i)
              /\ EntryValue(t, i) # Nil => EntryKey(u, i) = EntryKey(t, i)
  <2>1. CASE i <= sizearray(t)
    BY <1>9, <1>15, <2>1 DEF EntryKey, EntryValue
  <2>2. CASE ~(i <= sizearray(t))
    <3>1. PICK n : n = i - sizearray(t)
      OBVIOUS
    <3>2. n \in 1 .. N
      BY <1>1, <1>2, <2>2, <3>1 DEF PlacesOf
    <3>3. /\ EntryValue(u, i) = u.node[n].val /\ EntryValue(t, i) = t.node[n].val
          /\ EntryKey(u, i) = u.node[n].key /\ EntryKey(t, i) = t.node[n].key
      BY <1>15, <2>2, <3>1 DEF EntryKey, EntryValue
    <3> QED
      BY <1>10, <1>13, <3>2, <3>3
  <2> QED
    BY <2>1, <2>2
<1>17. ASSUME NEW key \in Fields PROVE Remembering(u, key) = Remembering(t, key)
  <2>1. \A n \in 1 .. N : n \in Remembering(t, key) <=> K[n] = key \/ (iscollectable(key) /\ K[n] = Dead(key))
    <3>1. \A x : \A n \in 1 .. N : n \in Holding(t, x) <=> K[n] = x
      BY <1>1, <1>10 DEF Holding
    <3> QED
      BY <3>1 DEF Remembering, iscollectable
  <2>2. \A n \in 1 .. N : n \in Remembering(u, key) <=> J[n] = key \/ (iscollectable(key) /\ J[n] = Dead(key))
    <3>1. \A x : \A n \in 1 .. N : n \in Holding(u, x) <=> J[n] = x
      BY <1>9, <1>10 DEF Holding
    <3> QED
      BY <3>1 DEF Remembering, iscollectable
  <2>3. Remembering(t, key) \subseteq 1 .. N /\ Remembering(u, key) \subseteq 1 .. N
    BY <1>1, <1>9 DEF Remembering, Holding
  <2>4. ASSUME NEW n \in 1 .. N
        PROVE  (K[n] = key \/ (iscollectable(key) /\ K[n] = Dead(key)))
                 <=> (J[n] = key \/ (iscollectable(key) /\ J[n] = Dead(key)))
    <3>1. CASE J[n] = K[n]
      BY <3>1
    <3>2. CASE K[n] \in Fields /\ J[n] = Dead(K[n]) /\ iscollectable(K[n])
      <4>1. K[n] # Dead(key) /\ J[n] # key
        BY <3>2, NotDead
      <4>2. Dead(K[n]) = Dead(key) => K[n] = key
        BY DEF Dead
      <4>3. CASE K[n] = key
        BY <3>2, <4>3 DEF iscollectable
      <4>4. CASE K[n] # key
        <5>1. J[n] # Dead(key)
          BY <3>2, <4>2, <4>4
        <5> QED
          BY <4>1, <4>4, <5>1
      <4> QED
        BY <4>3, <4>4
    <3> QED
      BY <1>11, <3>1, <3>2
  <2> QED
    BY <2>1, <2>2, <2>3, <2>4
<1>18. \A key \in Places : luaH_get(u, key) = luaH_get(t, key)
  <2>1. Entries(u) = Entries(t)
    <3>1. \A n \in 1 .. N : V[n] # Nil => u.node[n].key = t.node[n].key
      BY <1>10, <1>13
    <3>2. \A n \in 1 .. N : u.node[n].val = t.node[n].val
      BY <1>10
    <3>3. UsedNodes(u) = UsedNodes(t)
      BY <1>1, <1>9, <3>2 DEF UsedNodes
    <3>4. \A n \in UsedNodes(t) : u.node[n].key = t.node[n].key /\ u.node[n].val = t.node[n].val
      BY <1>1, <1>10, <3>1, <3>2 DEF UsedNodes
    <3> QED
      BY <3>3, <3>4 DEF Entries
  <2> QED
    BY <1>9, <1>14, <2>1, SameView
<1> QED
  BY <1>1, <1>6, <1>9, <1>14, <1>15, <1>16, <1>17, <1>18 DEF Collecting

(* A search depends on how the nodes are chained, not on what is in them. *)
LEMMA SearchSame ==
  ASSUME NEW t, Sane(t), NEW u, Sane(u), sizenode(u) = sizenode(t), Nexts(u) = Nexts(t),
         NEW start \in 1 .. sizenode(t), NEW wanted \in SUBSET (1 .. sizenode(t))
  PROVE  Search(u, start, wanted) = Search(t, start, wanted)
<1>1. PICK N, nx, a, b : /\ N = sizenode(t) /\ nx = Nexts(t)
                         /\ a = Search(t, start, wanted) /\ b = Search(u, start, wanted)
  OBVIOUS
<1>2. N \in Nat /\ nx \in [1 .. N -> 0 .. N] /\ Acyclic(nx)
  BY <1>1, TableParts DEF Sane, Chains, Linked
<1>3. /\ a \in 0 .. N /\ (a = 0 => \A w \in wanted : ~Reaches(nx, start, w))
      /\ a # 0 => /\ a \in wanted /\ Reaches(nx, start, a)
                  /\ \A w \in wanted : Reaches(nx, start, w) => Reaches(nx, a, w)
  BY <1>1, <1>2, Searching
<1>4. /\ b \in 0 .. N /\ (b = 0 => \A w \in wanted : ~Reaches(nx, start, w))
      /\ b # 0 => /\ b \in wanted /\ Reaches(nx, start, b)
                  /\ \A w \in wanted : Reaches(nx, start, w) => Reaches(nx, b, w)
  BY <1>1, <1>2, Searching
<1>5. a = 0 <=> b = 0
  BY <1>3, <1>4
<1>6. ASSUME a # 0, b # 0 PROVE a = b
  <2>1. Reaches(nx, a, b) /\ Reaches(nx, b, a) /\ a \in 1 .. N /\ b \in 1 .. N
    BY <1>1, <1>3, <1>4, <1>6
  <2> QED
    BY <1>2, <2>1, ReachesOneWay
<1> QED
  BY <1>1, <1>5, <1>6

(* findindex finds a key, dead or alive, where it was, as long as the *)
(* nodes remember it.                                                 *)
LEMMA FindSame ==
  ASSUME NEW t, Sane(t), NEW u, Sane(u), sizearray(u) = sizearray(t), sizenode(u) = sizenode(t),
         Nexts(u) = Nexts(t), NEW key \in Fields \cup {Nil},
         key \in Fields => Remembering(u, key) = Remembering(t, key)
  PROVE  findindex(u, key) = findindex(t, key)
<1>1. CASE key = Nil
  BY <1>1 DEF findindex
<1>2. CASE key # Nil
  <2>1. key \in Fields /\ key \in Places
    BY <1>2, PlacesKeys
  <2>2. InArray(u, key) <=> InArray(t, key)
    BY DEF InArray
  <2>3. mainposition(u, key) = mainposition(t, key) /\ mainposition(t, key) \in 1 .. sizenode(t)
    BY <2>1, Place DEF mainposition, Sane
  <2>4. Remembering(t, key) \in SUBSET (1 .. sizenode(t))
    BY DEF Remembering, Holding
  <2>5. Search(u, mainposition(u, key), Remembering(u, key)) = Search(t, mainposition(t, key), Remembering(t, key))
    BY <2>1, <2>3, <2>4, SearchSame
  <2> QED
    BY <1>2, <2>2, <2>5 DEF findindex, IndexOfNode
<1> QED
  BY <1>1, <1>2

(* The same keys in the same nodes are remembered in the same places. *)
LEMMA RememberSame ==
  ASSUME NEW t \in Table, NEW u \in Table, sizenode(u) = sizenode(t), KeysOf(u) = KeysOf(t), NEW key
  PROVE  Remembering(u, key) = Remembering(t, key)
<1>1. \A n \in 1 .. sizenode(t) : u.node[n].key = t.node[n].key
  BY NodeFacts
<1> QED
  BY <1>1 DEF Remembering, Holding

(* findindex finds a key that has a value in its place, and no dead key *)
(* that is a namesake.                                                  *)
LEMMA FindLive ==
  ASSUME NEW t, Sane(t), NEW i \in PlacesOf(t), EntryValue(t, i) # Nil
  PROVE  findindex(t, EntryKey(t, i)) = i
<1>1. PICK key : key = EntryKey(t, i)
  OBVIOUS
<1>2. /\ t \in Table /\ sizearray(t) \in Nat /\ sizenode(t) \in Nat /\ sizenode(t) > 0
      /\ key \in Fields /\ key # Nil /\ key \in Places
  BY <1>1, TableParts, PlaceGot, PlacesKeys, KeyKinds DEF Sane
<1>3. CASE i <= sizearray(t)
  <2>1. key = Num(i) /\ InArray(t, key) /\ key[2] = i
    BY <1>1, <1>2, <1>3, KeysNumbered DEF EntryKey, InArray, PlacesOf
  <2> QED
    BY <1>1, <1>2, <2>1 DEF findindex
<1>4. CASE ~(i <= sizearray(t))
  <2>1. PICK n, N, K, nx, m, r : /\ n = i - sizearray(t) /\ N = sizenode(t) /\ K = KeysOf(t) /\ nx = Nexts(t)
                                 /\ m = mainposition(t, key) /\ r = Search(t, m, Remembering(t, key))
    OBVIOUS
  <2>2. n \in 1 .. N /\ t.node[n].key = key
    BY <1>1, <1>2, <1>4, <2>1 DEF PlacesOf, EntryKey
  <2>3. ~InArray(t, key)
    BY <1>2, <2>1, <2>2 DEF Sane
  <2>4. /\ N \in Nat /\ nx \in [1 .. N -> 0 .. N] /\ Acyclic(nx) /\ Chains(K, nx, Home(t), N)
        /\ m \in 1 .. N /\ Remembering(t, key) \in SUBSET (1 .. N)
    <3>1. Chains(K, nx, Home(t), N)
      BY <2>1 DEF Sane
    <3>2. m \in 1 .. N
      BY <1>2, <2>1, Place
    <3>3. Remembering(t, key) \in SUBSET (1 .. N)
      BY <2>1 DEF Remembering, Holding
    <3> QED
      BY <1>2, <2>1, <3>1, <3>2, <3>3 DEF Chains, Linked
  <2>5. K[n] = key /\ \A x \in 1 .. N : K[x] = t.node[x].key
    BY <1>2, <2>1, <2>2, NodeFacts
  <2>6. Reaches(nx, m, n)
    <3>1. Home(t)[Original(key)] = m
      BY <1>2, <2>1, KeyKinds DEF Home
    <3> QED
      BY <1>2, <2>2, <2>4, <2>5, <3>1 DEF Chains
  <2>7. n \in Remembering(t, key)
    BY <2>1, <2>2 DEF Remembering, Holding
  <2>8. /\ r \in 0 .. N /\ (r = 0 => ~Reaches(nx, m, n))
        /\ r # 0 => r \in Remembering(t, key) /\ Reaches(nx, r, n)
    <3>1. /\ r \in 0 .. N /\ (r = 0 => \A w \in Remembering(t, key) : ~Reaches(nx, m, w))
          /\ r # 0 => /\ r \in Remembering(t, key) /\ Reaches(nx, m, r)
                      /\ \A w \in Remembering(t, key) : Reaches(nx, m, w) => Reaches(nx, r, w)
      BY <2>1, <2>4, Searching
    <3> QED
      BY <2>6, <2>7, <3>1
  <2>9. r \in 1 .. N /\ r \in Remembering(t, key) /\ Reaches(nx, r, n)
    BY <2>6, <2>8
  <2>10. r = n
    <3>1. K[r] = key \/ K[r] = Dead(key)
      BY <2>1, <2>5, <2>9 DEF Remembering, Holding
    <3>2. CASE K[r] = key
      BY <1>2, <2>2, <2>4, <2>5, <2>9, <3>2 DEF Chains
    <3>3. CASE K[r] = Dead(key)
      <4>1. Reaches(nx, n, r)
        BY <1>2, <2>2, <2>4, <2>5, <2>9, <3>3 DEF Chains
      <4> QED
        BY <2>2, <2>4, <2>9, <4>1, ReachesOneWay
    <3> QED
      BY <3>1, <3>2, <3>3
  <2>11. findindex(t, key) = IndexOfNode(t, r)
    BY <1>2, <2>1, <2>3 DEF findindex
  <2>12. IndexOfNode(t, r) = sizearray(t) + n
    BY <2>1, <2>2, <2>10 DEF IndexOfNode, NULL
  <2> QED
    BY <1>1, <1>2, <2>1, <2>11, <2>12 DEF PlacesOf
<1> QED
  BY <1>3, <1>4

--------------------------------------------------------------------------------
(* The length. *)
(* Halving keeps a border between the ends, and ends with it. *)
Halved(t, p) ==
  IF p[2] - p[1] <= 1 THEN p
  ELSE IF luaH_get(t, Num((p[1] + p[2]) \div 2)) = Nil THEN <<p[1], (p[1] + p[2]) \div 2>>
  ELSE <<(p[1] + p[2]) \div 2, p[2]>>

Around(t, p) ==
  /\ p \in Nat \X Nat /\ p[1] < p[2]
  /\ p[1] = 0 \/ luaH_get(t, Num(p[1])) # Nil
  /\ luaH_get(t, Num(p[2])) = Nil

(* A turn of the loop of luaH_getn keeps a border between the ends and *)
(* brings them together.                                               *)
LEMMA Halving ==
  ASSUME NEW t, NEW p, Around(t, p), NEW q, q = Halved(t, p)
  PROVE  Around(t, q) /\ (p[2] - p[1] > 1 => q[2] - q[1] < p[2] - p[1]) /\ (p[2] - p[1] <= 1 => q = p)
<1>1. PICK a, b : p = <<a, b>> /\ a \in Nat /\ b \in Nat /\ a < b
  BY DEF Around
<1>2. PICK m : m = (a + b) \div 2
  OBVIOUS
<1>3. CASE b - a <= 1
  <2>1. q = p
    BY <1>1, <1>3 DEF Halved
  <2> QED
    BY <1>1, <1>3, <2>1
<1>4. CASE ~(b - a <= 1)
  <2>1. m \in Nat /\ a < m /\ m < b
    BY <1>1, <1>2, <1>4
  <2>2. CASE luaH_get(t, Num(m)) = Nil
    <3>1. q = <<a, m>>
      BY <1>1, <1>2, <1>4, <2>2 DEF Halved
    <3>2. Around(t, q)
      BY <1>1, <2>1, <2>2, <3>1 DEF Around
    <3> QED
      BY <1>1, <1>4, <2>1, <3>1, <3>2
  <2>3. CASE luaH_get(t, Num(m)) # Nil
    <3>1. q = <<m, b>>
      BY <1>1, <1>2, <1>4, <2>3 DEF Halved
    <3>2. Around(t, q)
      BY <1>1, <2>1, <2>3, <3>1 DEF Around
    <3> QED
      BY <1>1, <1>4, <2>1, <3>1, <3>2
  <2> QED
    BY <2>2, <2>3
<1> QED
  BY <1>3, <1>4

(* The binary search finds a border. *)
LEMMA Searched ==
  ASSUME NEW t, NEW i \in Nat, NEW j \in Nat, Around(t, <<i, j>>)
  PROVE  IsBorder(t, BinarySearch(t, i, j))
<1>1. PICK N, S, x : N = j - i /\ S = {p \in Nat \X Nat : Around(t, p)} /\ x = <<i, j>>
  OBVIOUS
<1>2. N \in Nat /\ N > 0 /\ x \in S
  <2>1. i < j
    BY DEF Around
  <2> QED
    BY <1>1, <2>1 DEF Around
<1>3. PICK g : g = [p \in S |-> Halved(t, p)]
  OBVIOUS
<1>4. ASSUME NEW p \in S
      PROVE  /\ g[p] \in S /\ (p[2] - p[1] > 1 => g[p][2] - g[p][1] < p[2] - p[1])
             /\ (p[2] - p[1] <= 1 => g[p] = p)
  <2>1. Around(t, p) /\ g[p] = Halved(t, p)
    BY <1>1, <1>3
  <2>2. /\ Around(t, g[p]) /\ (p[2] - p[1] > 1 => g[p][2] - g[p][1] < p[2] - p[1])
        /\ (p[2] - p[1] <= 1 => g[p] = p)
    BY <2>1, Halving
  <2>3. g[p] \in Nat \X Nat
    BY <2>2 DEF Around
  <2> QED
    BY <1>1, <2>2, <2>3
<1>5. g \in [S -> S]
  BY <1>3, <1>4
<1>6. \A p \in S : g[p] = Halved(t, p)
  BY <1>3
<1>7. PICK f \in [0 .. N -> S] : Iterate(f, N, x, g)
  BY <1>2, <1>5, IterateExists
<1>8. \A k \in 0 .. N : f[k] = IF k = 0 THEN x ELSE g[f[k - 1]]
  BY <1>7, Zenon DEF Iterate
<1>9. \A k \in 0 .. N : f[k] = IF k = 0 THEN x ELSE Halved(t, f[k - 1])
  <2> SUFFICES ASSUME NEW k \in 0 .. N PROVE f[k] = IF k = 0 THEN x ELSE Halved(t, f[k - 1])
    OBVIOUS
  <2>1. k # 0 => k - 1 \in 0 .. N
    BY <1>2
  <2>2. k # 0 => f[k - 1] \in S
    BY <1>7, <2>1
  <2> QED
    BY <1>6, <1>8, <2>2
<1>10. f = [k \in 0 .. N |-> IF k = 0 THEN x ELSE Halved(t, f[k - 1])]
  <2>1. DOMAIN f = 0 .. N /\ f = [k \in DOMAIN f |-> f[k]]
    BY <1>7
  <2>2. f = [k \in 0 .. N |-> f[k]]
    BY <2>1
  <2> QED
    BY <1>9, <2>2, Zenon
(* The function of BinarySearch. *)
<1> DEFINE halved(p, m) ==
             IF p[2] - p[1] <= 1 THEN p
             ELSE IF luaH_get(t, Num(m)) = Nil THEN <<p[1], m>> ELSE <<m, p[2]>>
           range == CHOOSE h : h = [k \in 0 .. j - i |->
             IF k = 0 THEN <<i, j>> ELSE LET p == h[k - 1] IN halved(p, (p[1] + p[2]) \div 2)]
<1>11. BinarySearch(t, i, j) = range[j - i][1]
  BY Zenon DEF BinarySearch
<1>12. range = [k \in 0 .. N |-> IF k = 0 THEN x ELSE Halved(t, range[k - 1])]
  <2>1. \E h : h = [k \in 0 .. N |-> IF k = 0 THEN x ELSE Halved(t, h[k - 1])]
    BY <1>10
  <2>2. range = CHOOSE h : h = [k \in 0 .. N |-> IF k = 0 THEN x ELSE Halved(t, h[k - 1])]
    BY <1>1 DEF range, Halved
  <2> HIDE DEF range
  <2> QED
    BY <2>1, <2>2, Zenon
<1> HIDE DEF range
<1>13. range[0] = x /\ \A k \in 0 .. N : k # 0 => range[k] = Halved(t, range[k - 1])
  <2>1. 0 \in 0 .. N
    BY <1>2
  <2> QED
    BY <1>12, <2>1, Zenon
<1>14. \A k \in 0 .. N : range[k] \in S /\ (range[k][2] - range[k][1] <= 1 \/ range[k][2] - range[k][1] <= N - k)
  <2> DEFINE T == {k \in 0 .. N : range[k] \in S /\ (range[k][2] - range[k][1] <= 1 \/ range[k][2] - range[k][1] <= N - k)}
  <2>1. 0 \in T /\ T \in SUBSET (0 .. N)
    <3>1. range[0] \in S /\ range[0][2] - range[0][1] = N
      BY <1>1, <1>2, <1>13
    <3> QED
      BY <1>2, <3>1
  <2>2. ASSUME NEW k \in 0 .. N, k \in T, k < N PROVE k + 1 \in T
    <3>1. k + 1 \in 0 .. N /\ k + 1 # 0 /\ (k + 1) - 1 = k
      BY <1>2, <2>2
    <3>2. range[k + 1] = Halved(t, range[k])
      <4>1. range[k + 1] = Halved(t, range[(k + 1) - 1])
        BY <1>13, <3>1
      <4> QED
        BY <3>1, <4>1
    <3>3. PICK p, q : p = range[k] /\ q = range[k + 1]
      OBVIOUS
    <3>4. p \in S /\ q = g[p] /\ (p[2] - p[1] <= 1 \/ p[2] - p[1] <= N - k)
      BY <1>6, <2>2, <3>2, <3>3
    <3>5. /\ q \in S /\ (p[2] - p[1] > 1 => q[2] - q[1] < p[2] - p[1])
          /\ (p[2] - p[1] <= 1 => q = p)
      BY <1>4, <3>4
    <3>6. p[1] \in Nat /\ p[2] \in Nat /\ q[1] \in Nat /\ q[2] \in Nat
      <4>1. p \in Nat \X Nat /\ q \in Nat \X Nat
        BY <1>1, <3>4, <3>5
      <4> QED
        BY <4>1
    <3>7. q[2] - q[1] <= 1 \/ q[2] - q[1] <= N - (k + 1)
      <4>1. CASE p[2] - p[1] <= 1
        BY <3>5, <4>1
      <4>2. CASE ~(p[2] - p[1] <= 1)
        <5>1. PICK m, n : m = p[2] - p[1] /\ n = q[2] - q[1]
          OBVIOUS
        <5>2. m \in Int /\ n \in Int /\ k \in Int /\ m > 1
          BY <3>6, <4>2, <5>1
        <5>3. n < m
          BY <3>5, <5>1, <5>2
        <5>4. m <= N - k
          BY <3>4, <4>2, <5>1
        <5> QED
          BY <1>2, <5>1, <5>2, <5>3, <5>4
      <4> QED
        BY <4>1, <4>2
    <3> QED
      BY <3>1, <3>3, <3>5, <3>7
  <2>3. 0 .. N \subseteq T
    <3> HIDE DEF T
    <3>1. 0 \in Nat /\ 0 <= N
      BY <1>2
    <3> QED
      BY <1>2, <2>1, <2>2, <3>1, Upward
  <2> QED
    BY <2>3
<1>15. PICK a, b : range[N] = <<a, b>> /\ a \in Nat /\ b = a + 1 /\ Around(t, <<a, b>>)
  <2>1. N \in 0 .. N /\ N - N = 0
    BY <1>2
  <2>2. range[N] \in Nat \X Nat /\ Around(t, range[N])
    BY <1>1, <1>14, <2>1
  <2>3. PICK a \in Nat, b \in Nat : range[N] = <<a, b>>
    BY <2>2
  <2>4. b - a <= 1 \/ b - a <= 0
    BY <1>14, <2>1, <2>3
  <2>5. a < b
    BY <2>2, <2>3 DEF Around
  <2>6. b = a + 1
    BY <2>4, <2>5
  <2>7. range[N] = <<a, b>> /\ a \in Nat /\ b = a + 1 /\ Around(t, <<a, b>>)
    BY <2>2, <2>3, <2>6
  <2> QED
    BY <2>7
<1>16. BinarySearch(t, i, j) = a
  BY <1>1, <1>11, <1>15
<1> QED
  BY <1>15, <1>16 DEF IsBorder, Around
(* An index that has a value beyond the array has a node. *)
LEMMA BeyondArray ==
  ASSUME NEW t, Sane(t), NEW i \in Indexes, i > sizearray(t), luaH_get(t, Num(i)) # Nil
  PROVE  i <= MAX_INT /\ \E n \in 1 .. sizenode(t) : t.node[n].key = Num(i)
<1>1. t \in Table /\ sizearray(t) \in Nat /\ i \in Nat /\ Num(i) \in Places
  BY TableParts, PlacesKeys, SizesAssumption DEF Sane, Indexes
<1>2. ~InArray(t, Num(i))
  BY <1>1, KeysNumbered DEF InArray
<1>3. PICK n \in 1 .. sizenode(t) : t.node[n].key = Num(i)
  BY <1>1, <1>2, Getting
<1>4. Num(i) \in Fields
  <2>1. t.node[n].key \in Key
    BY <1>1, TableParts DEF Node
  <2> QED
    BY <1>1, <1>3, <2>1, PlacesKeys DEF Key
<1>5. i <= MAX_INT
  <2>1. IsNumber(Num(i)) /\ Num(i)[2] = i
    BY KeysNumbered
  <2>2. Num(i)[2] \in -MAX_INT .. MAX_INT
    BY <1>4, <2>1, FieldsAssumption
  <2> QED
    BY <2>1, <2>2, SizesAssumption
<1> QED
  BY <1>3, <1>5

(* The index after the greatest integer never has a value. *)
LEMMA AfterLast == ASSUME NEW t, Sane(t) PROVE luaH_get(t, Num(MAX_INT + 1)) = Nil
<1>1. t \in Table /\ sizearray(t) \in Nat /\ sizearray(t) <= MAX_INT /\ MAX_INT \in Nat
  BY TableParts, SizesAssumption DEF Sane
<1>2. MAX_INT + 1 \in Indexes /\ MAX_INT + 1 > sizearray(t) /\ ~(MAX_INT + 1 <= MAX_INT)
  BY <1>1 DEF Indexes
<1> QED
  BY <1>2, BeyondArray

(* The linear search, for tables made to have a border beyond the *)
(* integers, finds one.                                           *)
LEMMA LinearBorder == ASSUME NEW t, Sane(t) PROVE IsBorder(t, LinearSearch(t))
<1>1. MAX_INT \in Nat /\ luaH_get(t, Num(MAX_INT + 1)) = Nil
  BY AfterLast, SizesAssumption
<1>2. PICK T : T = {i \in Nat : luaH_get(t, Num(i + 1)) = Nil}
  OBVIOUS
<1>3. PICK i \in T : \A m \in T : i <= m
  <2>1. MAX_INT \in T /\ T \subseteq Nat
    BY <1>1, <1>2
  <2> QED
    BY <2>1, LeastOf
<1>4. i \in 0 .. MAX_INT /\ luaH_get(t, Num(i + 1)) = Nil
  BY <1>1, <1>2, <1>3
<1>5. ASSUME NEW k \in 1 .. i PROVE luaH_get(t, Num(k)) # Nil
  <2>1. k - 1 \in Nat /\ ~(i <= k - 1) /\ (k - 1) + 1 = k
    BY <1>4
  <2> QED
    BY <1>2, <1>3, <2>1
<1>6. PICK r : r = LinearSearch(t)
  OBVIOUS
<1>7. r \in 0 .. MAX_INT /\ luaH_get(t, Num(r + 1)) = Nil /\ \A k \in 1 .. r : luaH_get(t, Num(k)) # Nil
  <2>1. \E m \in 0 .. MAX_INT : luaH_get(t, Num(m + 1)) = Nil /\ \A k \in 1 .. m : luaH_get(t, Num(k)) # Nil
    BY <1>4, <1>5
  <2> QED
    BY <1>6, <2>1, Zenon DEF LinearSearch
<1>8. r = 0 \/ r \in 1 .. r
  BY <1>7
<1> QED
  BY <1>6, <1>7, <1>8 DEF IsBorder

(* Doubling finds a node each time, so it ends. *)
Ended(t, p) == p[2] > MAX_INT \/ luaH_get(t, Num(p[2])) = Nil
Doubled(t, p) == IF Ended(t, p) THEN p ELSE <<p[2], 2 * p[2]>>
Leading(t, p) ==
  /\ p \in Nat \X Nat /\ p[1] < p[2] /\ p[2] > sizearray(t)
  /\ p[1] = 0 \/ luaH_get(t, Num(p[1])) # Nil

(* A turn of the first loop of unbound_search. *)
LEMMA Doubling ==
  ASSUME NEW t, sizearray(t) \in Nat, NEW p, Leading(t, p), NEW q, q = Doubled(t, p)
  PROVE  Leading(t, q) /\ (~Ended(t, p) => q[2] > p[2]) /\ (Ended(t, p) => q = p)
<1>1. PICK a, b : p = <<a, b>> /\ a \in Nat /\ b \in Nat /\ a < b /\ b > sizearray(t)
  BY DEF Leading
<1>2. CASE Ended(t, p)
  BY <1>2 DEF Doubled
<1>3. CASE ~Ended(t, p)
  <2>1. q = <<b, 2 * b>> /\ luaH_get(t, Num(b)) # Nil
    BY <1>1, <1>3 DEF Doubled, Ended
  <2>2. 2 * b \in Nat /\ b < 2 * b /\ 2 * b > sizearray(t)
    BY <1>1
  <2>3. Leading(t, q)
    BY <1>1, <2>1, <2>2 DEF Leading
  <2> QED
    BY <1>1, <1>3, <2>1, <2>2, <2>3
<1> QED
  BY <1>2, <1>3

(* The pairs that the doubling goes through. *)
Doublings(t, f) ==
  /\ f \in [0 .. sizenode(t) -> Nat \X Nat]
  /\ \A k \in 0 .. sizenode(t) : Leading(t, f[k])
  /\ \A k \in 0 .. sizenode(t) : k # 0 => f[k] = Doubled(t, f[k - 1])

(* The doubling finds another node each time, so it ends; that is why the *)
(* model may stop after as many turns as there are nodes.                 *)
LEMMA DoublingEnds ==
  ASSUME NEW t, Sane(t), NEW f, Doublings(t, f)
  PROVE  Ended(t, f[sizenode(t)])
<1> SUFFICES ASSUME ~Ended(t, f[sizenode(t)]) PROVE FALSE
  OBVIOUS
<1>1. PICK N : N = sizenode(t)
  OBVIOUS
<1>2. t \in Table /\ N \in Nat /\ N > 0 /\ sizearray(t) \in Nat /\ MAX_INT \in Nat
  BY <1>1, TableParts, SizesAssumption DEF Sane
<1>3. /\ f \in [0 .. N -> Nat \X Nat] /\ \A k \in 0 .. N : Leading(t, f[k])
      /\ \A k \in 0 .. N : k # 0 => f[k] = Doubled(t, f[k - 1])
  BY <1>1 DEF Doublings
<1>4. ASSUME NEW k \in 0 .. N, k < N
      PROVE  /\ ~Ended(t, f[k]) => f[k + 1][2] > f[k][2]
             /\ Ended(t, f[k]) => f[k + 1] = f[k]
  <2>1. k + 1 \in 0 .. N /\ k + 1 # 0 /\ (k + 1) - 1 = k
    BY <1>2, <1>4
  <2>2. f[k + 1] = Doubled(t, f[k])
    <3>1. f[k + 1] = Doubled(t, f[(k + 1) - 1])
      BY <1>3, <2>1
    <3> QED
      BY <2>1, <3>1
  <2> QED
    BY <1>2, <1>3, <2>2, Doubling
<1>5. \A k \in 0 .. N : ~Ended(t, f[k])
  <2> SUFFICES ASSUME NEW k \in 0 .. N, Ended(t, f[k]) PROVE FALSE
    OBVIOUS
  <2> DEFINE T == {i \in k .. N : f[i] = f[k]}
  <2>1. k \in T /\ T \in SUBSET (k .. N) /\ k \in Nat /\ k <= N
    BY <1>2
  <2>2. ASSUME NEW i \in k .. N, i \in T, i < N PROVE i + 1 \in T
    <3>1. i \in 0 .. N /\ i + 1 \in k .. N
      BY <1>2, <2>2
    <3>2. Ended(t, f[i]) /\ f[i] = f[k]
      BY <2>2
    <3>3. f[i + 1] = f[i]
      BY <1>4, <2>2, <3>1, <3>2
    <3> QED
      BY <3>1, <3>2, <3>3
  <2>3. k .. N \subseteq T
    <3> HIDE DEF T
    <3> QED
      BY <1>2, <2>1, <2>2, Upward
  <2>4. N \in k .. N
    BY <1>2
  <2>5. f[N] = f[k]
    BY <2>3, <2>4
  <2> QED
    BY <1>1, <2>5
<1>6. \A k \in 0 .. N : f[k][2] \in Nat /\ f[k][2] > sizearray(t) /\ f[k][2] <= MAX_INT /\ luaH_get(t, Num(f[k][2])) # Nil
  <2> SUFFICES ASSUME NEW k \in 0 .. N
               PROVE  f[k][2] \in Nat /\ f[k][2] > sizearray(t) /\ f[k][2] <= MAX_INT /\ luaH_get(t, Num(f[k][2])) # Nil
    OBVIOUS
  <2>1. f[k][2] \in Nat /\ f[k][2] > sizearray(t)
    BY <1>3 DEF Leading
  <2> QED
    BY <1>2, <1>5, <2>1 DEF Ended
<1>7. \A a, b \in 0 .. N : a < b => f[a][2] < f[b][2]
  <2> SUFFICES ASSUME NEW a \in 0 .. N, NEW b \in 0 .. N, a < b PROVE f[a][2] < f[b][2]
    OBVIOUS
  <2> DEFINE T == {i \in a + 1 .. N : f[a][2] < f[i][2]}
  <2>1. a + 1 \in T /\ T \in SUBSET (a + 1 .. N) /\ a + 1 \in Nat /\ a + 1 <= N
    <3>1. a < N /\ a + 1 \in a + 1 .. N /\ a + 1 \in Nat /\ a + 1 <= N
      BY <1>2
    <3>2. f[a + 1][2] > f[a][2]
      BY <1>4, <1>5, <3>1
    <3>3. f[a][2] \in Nat /\ f[a + 1][2] \in Nat
      BY <1>2, <1>6, <3>1
    <3>4. f[a][2] < f[a + 1][2]
      BY <3>2, <3>3
    <3> QED
      BY <3>1, <3>4
  <2>2. ASSUME NEW i \in a + 1 .. N, i \in T, i < N PROVE i + 1 \in T
    <3>1. i \in 0 .. N /\ i + 1 \in a + 1 .. N /\ i + 1 \in 0 .. N
      BY <1>2, <2>2
    <3>2. f[i + 1][2] > f[i][2]
      BY <1>4, <1>5, <2>2, <3>1
    <3>3. f[a][2] \in Nat /\ f[i][2] \in Nat /\ f[i + 1][2] \in Nat /\ f[a][2] < f[i][2]
      BY <1>6, <2>2, <3>1
    <3>4. f[a][2] < f[i + 1][2]
      BY <3>2, <3>3
    <3> QED
      BY <3>1, <3>4
  <2>3. a + 1 .. N \subseteq T
    <3> HIDE DEF T
    <3> QED
      BY <1>2, <2>1, <2>2, Upward
  <2>4. b \in a + 1 .. N
    BY <1>2
  <2> QED
    BY <2>3, <2>4
<1>8. \A k \in 0 .. N : \E n \in 1 .. N : t.node[n].key = Num(f[k][2])
  <2> SUFFICES ASSUME NEW k \in 0 .. N PROVE \E n \in 1 .. N : t.node[n].key = Num(f[k][2])
    OBVIOUS
  <2>1. PICK i : i = f[k][2]
    OBVIOUS
  <2>2. i \in Nat /\ i > sizearray(t) /\ i <= MAX_INT /\ luaH_get(t, Num(i)) # Nil
    BY <1>6, <2>1
  <2>3. i \in Indexes
    BY <1>2, <2>2 DEF Indexes
  <2>4. \E n \in 1 .. sizenode(t) : t.node[n].key = Num(i)
    BY <2>2, <2>3, BeyondArray
  <2> QED
    BY <1>1, <2>1, <2>4
<1>9. PICK D, E : D = 0 .. N /\ E = 1 .. N
  OBVIOUS
<1>10. PICK node : node = [k \in D |-> CHOOSE n \in E : t.node[n].key = Num(f[k][2])]
  OBVIOUS
<1>11. \A k \in D : node[k] \in E /\ t.node[node[k]].key = Num(f[k][2])
  <2> SUFFICES ASSUME NEW k \in D PROVE node[k] \in E /\ t.node[node[k]].key = Num(f[k][2])
    OBVIOUS
  <2>1. \E n \in E : t.node[n].key = Num(f[k][2])
    BY <1>8, <1>9
  <2>2. node[k] = CHOOSE n \in E : t.node[n].key = Num(f[k][2])
    BY <1>10
  <2> QED
    BY <2>1, <2>2, Zenon
<1>12. PICK a \in D, b \in D : a # b /\ node[a] = node[b]
  <2>1. IsFiniteSet(D) /\ Cardinality(D) = N + 1 /\ IsFiniteSet(E) /\ Cardinality(E) = N
    <3>1. IsFiniteSet(0 .. N) /\ Cardinality(0 .. N) = N + 1
      BY <1>2, FS_Interval
    <3>2. IsFiniteSet(1 .. N) /\ Cardinality(1 .. N) = N
      BY <1>2, FS_Interval
    <3> QED
      BY <1>9, <3>1, <3>2
  <2>2. Cardinality(E) < Cardinality(D)
    BY <1>2, <2>1
  <2>3. node \in [D -> E]
    BY <1>10, <1>11
  <2> QED
    BY <2>1, <2>2, <2>3, FS_PigeonHole
<1>13. f[a][2] = f[b][2]
  <2>1. Num(f[a][2]) = Num(f[b][2])
    BY <1>11, <1>12
  <2> QED
    BY <2>1, KeysNumbered
<1>14. a \in Nat /\ b \in Nat /\ (a < b \/ b < a)
  BY <1>2, <1>9, <1>12
<1>15. f[a][2] \in Nat /\ f[b][2] \in Nat
  BY <1>6, <1>9
<1>16. f[a][2] < f[b][2] \/ f[b][2] < f[a][2]
  BY <1>7, <1>9, <1>14
<1> QED
  BY <1>13, <1>15, <1>16
(* unbound_search finds a border, by halving or, when doubling leaves the *)
(* integers, in order.                                                    *)
LEMMA UnboundBorder ==
  ASSUME NEW t, Sane(t), NEW j, j = sizearray(t), j = 0 \/ luaH_get(t, Num(j)) # Nil
  PROVE  IsBorder(t, unbound_search(t, j))
<1>1. PICK N, S, x : N = sizenode(t) /\ S = {p \in Nat \X Nat : Leading(t, p)} /\ x = <<j, j + 1>>
  OBVIOUS
<1>2. N \in Nat /\ N > 0 /\ j \in Nat /\ x \in S
  <2>1. N \in Nat /\ N > 0 /\ j \in Nat
    BY <1>1, TableParts DEF Sane
  <2>2. Leading(t, x)
    BY <1>1, <2>1 DEF Leading
  <2> QED
    BY <1>1, <2>1, <2>2
<1>3. PICK g : g = [p \in S |-> Doubled(t, p)]
  OBVIOUS
<1>4. g \in [S -> S] /\ \A p \in S : g[p] = Doubled(t, p)
  <2>1. ASSUME NEW p \in S PROVE Doubled(t, p) \in S
    <3>1. Leading(t, p)
      BY <1>1
    <3>2. Leading(t, Doubled(t, p))
      BY <1>1, <1>2, <3>1, Doubling
    <3> QED
      BY <1>1, <3>2 DEF Leading
  <2> QED
    BY <1>3, <2>1
<1>5. PICK f \in [0 .. N -> S] : Iterate(f, N, x, g)
  BY <1>2, <1>4, IterateExists
<1>6. \A k \in 0 .. N : f[k] = IF k = 0 THEN x ELSE g[f[k - 1]]
  BY <1>5, Zenon DEF Iterate
<1>7. \A k \in 0 .. N : f[k] = IF k = 0 THEN x ELSE Doubled(t, f[k - 1])
  <2> SUFFICES ASSUME NEW k \in 0 .. N PROVE f[k] = IF k = 0 THEN x ELSE Doubled(t, f[k - 1])
    OBVIOUS
  <2>1. k # 0 => k - 1 \in 0 .. N
    BY <1>2
  <2>2. k # 0 => f[k - 1] \in S
    BY <1>5, <2>1
  <2> QED
    BY <1>4, <1>6, <2>2
<1>8. f = [k \in 0 .. N |-> IF k = 0 THEN x ELSE Doubled(t, f[k - 1])]
  <2>1. DOMAIN f = 0 .. N /\ f = [k \in DOMAIN f |-> f[k]]
    BY <1>5
  <2>2. f = [k \in 0 .. N |-> f[k]]
    BY <2>1
  <2> QED
    BY <1>7, <2>2, Zenon
(* The function of unbound_search. *)
<1> DEFINE ends(p) == p[2] > MAX_INT \/ luaH_get(t, Num(p[2])) = Nil
           range == CHOOSE h : h = [k \in 0 .. sizenode(t) |->
             IF k = 0 THEN <<j, j + 1>>
             ELSE LET p == h[k - 1] IN IF ends(p) THEN p ELSE <<p[2], 2 * p[2]>>]
           last == range[sizenode(t)]
<1>9. unbound_search(t, j) = IF last[2] > MAX_INT THEN LinearSearch(t) ELSE BinarySearch(t, last[1], last[2])
  BY Zenon DEF unbound_search
<1>10. range = [k \in 0 .. N |-> IF k = 0 THEN x ELSE Doubled(t, range[k - 1])]
  <2>1. \E h : h = [k \in 0 .. N |-> IF k = 0 THEN x ELSE Doubled(t, h[k - 1])]
    BY <1>8
  <2>2. range = CHOOSE h : h = [k \in 0 .. N |-> IF k = 0 THEN x ELSE Doubled(t, h[k - 1])]
    BY <1>1 DEF range, Doubled, Ended
  <2> HIDE DEF range
  <2> QED
    BY <2>1, <2>2, Zenon
<1> HIDE DEF range
<1>11. range[0] = x /\ \A k \in 0 .. N : k # 0 => range[k] = Doubled(t, range[k - 1])
  <2>1. 0 \in 0 .. N
    BY <1>2
  <2> QED
    BY <1>10, <2>1, Zenon
<1>12. \A k \in 0 .. N : range[k] \in S
  <2> DEFINE T == {k \in 0 .. N : range[k] \in S}
  <2>1. 0 \in T /\ T \in SUBSET (0 .. N)
    BY <1>2, <1>11
  <2>2. ASSUME NEW k \in 0 .. N, k \in T, k < N PROVE k + 1 \in T
    <3>1. k + 1 \in 0 .. N /\ k + 1 # 0 /\ (k + 1) - 1 = k
      BY <1>2, <2>2
    <3>2. range[k + 1] = Doubled(t, range[(k + 1) - 1])
      BY <1>11, <3>1
    <3>3. range[k + 1] = g[range[k]]
      BY <1>4, <2>2, <3>1, <3>2
    <3> QED
      BY <1>4, <2>2, <3>1, <3>3
  <2>3. 0 .. N \subseteq T
    <3> HIDE DEF T
    <3>1. 0 \in Nat /\ 0 <= N
      BY <1>2
    <3> QED
      BY <1>2, <2>1, <2>2, <3>1, Upward
  <2> QED
    BY <2>3
<1>13. Doublings(t, range)
  <2>1. range \in [0 .. N -> Nat \X Nat]
    <3>1. \A k \in 0 .. N : range[k] \in Nat \X Nat
      BY <1>1, <1>12
    <3>2. range = [k \in 0 .. N |-> range[k]]
      <4>1. DOMAIN range = 0 .. N /\ range = [k \in DOMAIN range |-> range[k]]
        BY <1>10
      <4> QED
        BY <4>1
    <3> QED
      BY <3>1, <3>2
  <2>2. \A k \in 0 .. N : Leading(t, range[k])
    BY <1>1, <1>12
  <2> QED
    BY <1>1, <1>11, <2>1, <2>2 DEF Doublings
<1>14. Ended(t, last) /\ Leading(t, last)
  <2>1. N \in 0 .. N
    BY <1>2
  <2> QED
    BY <1>1, <1>13, <2>1, DoublingEnds DEF Doublings
<1>15. PICK a, b : last = <<a, b>> /\ a \in Nat /\ b \in Nat
  BY <1>14 DEF Leading
<1> HIDE DEF last
<1>16. CASE b > MAX_INT
  BY <1>9, <1>15, <1>16, LinearBorder
<1>17. CASE ~(b > MAX_INT)
  <2>1. Around(t, <<a, b>>)
    BY <1>14, <1>15, <1>17 DEF Ended, Leading, Around
  <2>2. unbound_search(t, j) = BinarySearch(t, a, b)
    BY <1>9, <1>15, <1>17
  <2> QED
    BY <1>15, <2>1, <2>2, Searched
<1> QED
  BY <1>16, <1>17

(* luaH_getn finds a border. *)
LEMMA LengthFound == ASSUME NEW t, Sane(t) PROVE IsBorder(t, luaH_getn(t))
<1>1. PICK j : j = sizearray(t)
  OBVIOUS
<1>2. t \in Table /\ j \in Nat /\ j <= MAX_INT /\ MAX_INT \in Nat
  BY <1>1, TableParts, SizesAssumption DEF Sane
<1>3. ASSUME j > 0 PROVE luaH_get(t, Num(j)) = t.array[j]
  <2>1. j \in Indexes /\ j \in 1 .. sizearray(t)
    BY <1>1, <1>2, <1>3 DEF Indexes
  <2>2. Num(j) \in Places /\ InArray(t, Num(j)) /\ Num(j)[2] = j
    BY <2>1, PlacesKeys, KeysNumbered DEF InArray
  <2>3. luaH_get(t, Num(j)) = t.array[Num(j)[2]]
    BY <2>2, Getting
  <2> QED
    BY <2>2, <2>3
<1>4. CASE j > 0 /\ t.array[j] = Nil
  <2>1. luaH_getn(t) = BinarySearch(t, 0, j)
    BY <1>1, <1>4 DEF luaH_getn
  <2>2. Around(t, <<0, j>>)
    BY <1>2, <1>3, <1>4 DEF Around
  <2>3. 0 \in Nat
    OBVIOUS
  <2> QED
    BY <1>2, <2>1, <2>2, <2>3, Searched
<1>5. CASE ~(j > 0 /\ t.array[j] = Nil) /\ t.dummy
  <2>1. luaH_getn(t) = j
    BY <1>1, <1>5 DEF luaH_getn
  <2>2. j = 0 \/ luaH_get(t, Num(j)) # Nil
    BY <1>2, <1>3, <1>5
  <2>3. luaH_get(t, Num(j + 1)) = Nil
    <3> SUFFICES ASSUME luaH_get(t, Num(j + 1)) # Nil PROVE FALSE
      OBVIOUS
    <3>1. j + 1 \in Indexes /\ j + 1 > sizearray(t)
      BY <1>1, <1>2 DEF Indexes
    <3>2. PICK n \in 1 .. sizenode(t) : t.node[n].key = Num(j + 1)
      BY <3>1, BeyondArray
    <3>3. t.node = <<FreeNode>>
      BY <1>5 DEF Sane
    <3>4. n = 1
      BY <3>2, <3>3 DEF sizenode
    <3> QED
      BY <3>2, <3>3, <3>4 DEF FreeNode, Num, Nil
  <2> QED
    BY <2>1, <2>2, <2>3 DEF IsBorder
<1>6. CASE ~(j > 0 /\ t.array[j] = Nil) /\ ~t.dummy
  <2>1. luaH_getn(t) = unbound_search(t, j)
    BY <1>1, <1>6 DEF luaH_getn
  <2>2. j = 0 \/ luaH_get(t, Num(j)) # Nil
    BY <1>2, <1>3, <1>6
  <2> QED
    BY <1>1, <2>1, <2>2, UnboundBorder
<1> QED
  BY <1>4, <1>5, <1>6

--------------------------------------------------------------------------------
(* Traversals. *)
(* How far a traversal has come: it has visited the keys that have a value *)
(* up to where its key is, and no others.                                  *)
GoingIn(t, a, s) ==
  IF a = NoKey THEN s = {}
  ELSE /\ findindex(t, a) \in 0 .. sizearray(t) + sizenode(t)
       /\ \A i \in PlacesOf(t) : EntryValue(t, i) # Nil => (EntryKey(t, i) \in s <=> i <= findindex(t, a))

(* A step that keeps the keys where they are keeps a traversal going. *)
LEMMA GoesOn ==
  ASSUME NEW t, NEW u, NEW a, NEW s, GoingIn(t, a, s),
         sizearray(u) = sizearray(t), sizenode(u) = sizenode(t),
         a # NoKey => findindex(u, a) = findindex(t, a),
         \A i \in PlacesOf(t) :
           EntryValue(u, i) # Nil => EntryValue(t, i) # Nil /\ EntryKey(u, i) = EntryKey(t, i)
  PROVE  GoingIn(u, a, s)
<1>1. PlacesOf(u) = PlacesOf(t)
  BY DEF PlacesOf
<1>2. CASE a = NoKey
  BY <1>2 DEF GoingIn
<1>3. CASE a # NoKey
  BY <1>1, <1>3 DEF GoingIn
<1> QED
  BY <1>2, <1>3

(* Other flags, and a value set. *)
Flagged(t, w) == w = t \/ \E F \in SUBSET FlaggedEvents : w = [t EXCEPT !.flags = F]

(* A table with other flags has the same fields in the same places. *)
LEMMA FlaggedSame ==
  ASSUME NEW t, Sane(t), NEW w, Flagged(t, w)
  PROVE  /\ Sane(w) /\ w.array = t.array /\ w.node = t.node
         /\ sizenode(w) = sizenode(t) /\ sizearray(w) = sizearray(t)
         /\ KeysOf(w) = KeysOf(t) /\ Nexts(w) = Nexts(t)
         /\ \A key \in Places : luaH_get(w, key) = luaH_get(t, key)
         /\ \A key \in Fields : Present(w, key) = Present(t, key)
         /\ \A i : EntryKey(w, i) = EntryKey(t, i) /\ EntryValue(w, i) = EntryValue(t, i)
<1>1. /\ Sane(w) /\ w.array = t.array /\ w.node = t.node
      /\ sizenode(w) = sizenode(t) /\ sizearray(w) = sizearray(t)
      /\ \A key \in Places : luaH_get(w, key) = luaH_get(t, key)
      /\ \A key \in Fields : Present(w, key) = Present(t, key)
  <2>1. CASE w = t
    BY <2>1
  <2>2. CASE \E F \in SUBSET FlaggedEvents : w = [t EXCEPT !.flags = F]
    BY <2>2, OtherFlags
  <2> QED
    BY <2>1, <2>2 DEF Flagged
<1>2. KeysOf(w) = KeysOf(t) /\ Nexts(w) = Nexts(t)
  BY <1>1 DEF KeysOf, Nexts
<1>3. \A i : EntryKey(w, i) = EntryKey(t, i) /\ EntryValue(w, i) = EntryValue(t, i)
  BY <1>1 DEF EntryKey, EntryValue
<1> QED
  BY <1>1, <1>2, <1>3

(* Flags do not matter to a traversal. *)
LEMMA FlagsGoOn ==
  ASSUME NEW t, Sane(t), NEW w, Flagged(t, w), NEW a \in Fields \cup {Nil, NoKey}, NEW s, GoingIn(t, a, s)
  PROVE  GoingIn(w, a, s)
<1>1. /\ Sane(w) /\ sizenode(w) = sizenode(t) /\ sizearray(w) = sizearray(t)
      /\ KeysOf(w) = KeysOf(t) /\ Nexts(w) = Nexts(t)
      /\ \A i : EntryKey(w, i) = EntryKey(t, i) /\ EntryValue(w, i) = EntryValue(t, i)
  BY FlaggedSame
<1>2. t \in Table /\ w \in Table
  BY <1>1 DEF Sane
<1>3. ASSUME a # NoKey PROVE findindex(w, a) = findindex(t, a)
  <2>1. Remembering(w, a) = Remembering(t, a)
    BY <1>1, <1>2, RememberSame
  <2> QED
    BY <1>1, <1>3, <2>1, FindSame
<1> QED
  BY <1>1, <1>3, GoesOn

(* A field that has a value may be changed or cleared during a traversal. *)
LEMMA StoreGoesOn ==
  ASSUME NEW t, Sane(t), NEW key \in Fields, luaH_get(t, key) # Nil, NEW val \in Value,
         NEW w, Flagged(t, w), NEW u, u = Store(w, key, val),
         NEW a \in Fields \cup {Nil, NoKey}, NEW s, GoingIn(t, a, s)
  PROVE  GoingIn(u, a, s)
<1>1. Sane(w) /\ GoingIn(w, a, s) /\ luaH_get(w, key) # Nil /\ key \in Places
  BY FlaggedSame, FlagsGoOn, PlacesKeys
<1>2. Present(w, key)
  BY <1>1, PresentIs
<1>3. Storing(w, u, key, val)
  BY <1>1, <1>2, ValueStored
<1>4. w \in Table /\ u \in Table /\ Sane(u)
  BY <1>1, <1>3 DEF Sane, Storing
<1>5. sizearray(u) = sizearray(w) /\ sizenode(u) = sizenode(w) /\ KeysOf(u) = KeysOf(w) /\ Nexts(u) = Nexts(w)
  BY <1>3 DEF Storing
<1>6. ASSUME a # NoKey PROVE findindex(u, a) = findindex(w, a)
  <2>1. Remembering(u, a) = Remembering(w, a)
    BY <1>4, <1>5, RememberSame
  <2> QED
    BY <1>1, <1>4, <1>5, <1>6, <2>1, FindSame
<1>7. ASSUME NEW i \in PlacesOf(w), EntryValue(u, i) # Nil
      PROVE  EntryValue(w, i) # Nil /\ EntryKey(u, i) = EntryKey(w, i)
  <2>1. /\ EntryKey(u, i) = EntryKey(w, i)
        /\ EntryValue(u, i) = IF EntryKey(w, i) = key THEN val ELSE EntryValue(w, i)
    BY <1>3 DEF Storing, PlacesOf
  <2>2. CASE EntryKey(w, i) = key
    <3>1. luaH_get(w, key) = EntryValue(w, i)
      BY <1>1, <2>2, PlaceGot
    <3> QED
      BY <1>1, <2>1, <3>1
  <2>3. CASE EntryKey(w, i) # key
    BY <1>7, <2>1, <2>3
  <2> QED
    BY <2>2, <2>3
<1> QED
  BY <1>1, <1>5, <1>6, <1>7, GoesOn

(* The collector may run during a traversal: next finds the dead key it *)
(* was at.                                                              *)
LEMMA CollectGoesOn ==
  ASSUME NEW t, Sane(t), NEW u, Collecting(t, u), NEW a \in Fields \cup {Nil, NoKey}, NEW s, GoingIn(t, a, s)
  PROVE  GoingIn(u, a, s)
<1>1. /\ Sane(u) /\ sizearray(u) = sizearray(t) /\ sizenode(u) = sizenode(t) /\ Nexts(u) = Nexts(t)
      /\ \A i \in PlacesOf(t) :
           EntryValue(u, i) # Nil => EntryValue(t, i) # Nil /\ EntryKey(u, i) = EntryKey(t, i)
      /\ \A key \in Fields : Remembering(u, key) = Remembering(t, key)
  BY DEF Collecting
<1>2. a # NoKey => findindex(u, a) = findindex(t, a)
  BY <1>1, FindSame
<1> QED
  BY <1>1, <1>2, GoesOn

(* A value is set, by luaH_set or luaH_setnum. *)
Setting(t, u, key, val) ==
  /\ Sane(u) /\ u.flags \subseteq t.flags
  /\ \A k \in Places : luaH_get(u, k) = IF k = key THEN val ELSE luaH_get(t, k)
  /\ luaH_get(t, key) # Nil =>
       \A a \in Fields \cup {Nil, NoKey} : \A s : GoingIn(t, a, s) => GoingIn(u, a, s)

(* Setting a field, through luaH_set or luaH_setnum, sets it, keeps the *)
(* others and keeps a traversal going if the field had a value.         *)
LEMMA FieldSet ==
  ASSUME NEW t, Sane(t), NEW key \in Fields, NEW val \in Value,
         NEW w, NEW u, u = Store(w, key, val), w = luaH_set(t, key) \/ w = luaH_setnum(t, key)
  PROVE  Setting(t, u, key, val) /\ (w = luaH_set(t, key) => u.flags = {})
<1>1. /\ Sane(w) /\ Present(w, key) /\ w.flags \subseteq t.flags
      /\ \A k \in Places : luaH_get(w, k) = luaH_get(t, k)
      /\ w = luaH_set(t, key) => w.flags = {}
      /\ Present(t, key) => Flagged(t, w)
  <2>1. CASE w = luaH_set(t, key)
    <3>1. /\ Sane(w) /\ Present(w, key) /\ w.flags = {}
          /\ \A k \in Places : luaH_get(w, k) = luaH_get(t, k)
          /\ Present(t, key) => w = [t EXCEPT !.flags = {}]
      BY <2>1, KeySet
    <3>2. Present(t, key) => Flagged(t, w)
      BY <3>1, {} \in SUBSET FlaggedEvents DEF Flagged
    <3> QED
      BY <3>1, <3>2
  <2>2. CASE w # luaH_set(t, key)
    <3>1. /\ Sane(w) /\ Present(w, key) /\ w.flags \subseteq t.flags
          /\ \A k \in Places : luaH_get(w, k) = luaH_get(t, k)
          /\ Present(t, key) => w = t
      BY <2>2, NumberSet
    <3>2. Present(t, key) => Flagged(t, w)
      BY <3>1 DEF Flagged
    <3> QED
      BY <2>2, <3>1, <3>2
  <2> QED
    BY <2>1, <2>2
<1>2. Storing(w, u, key, val)
  BY <1>1, ValueStored
<1>3. \A k \in Places : luaH_get(u, k) = IF k = key THEN val ELSE luaH_get(t, k)
  <2>1. \A k \in Places : luaH_get(u, k) = IF k = key THEN val ELSE luaH_get(w, k)
    BY <1>1, <1>2, StoredView
  <2> QED
    BY <1>1, <2>1
<1>4. ASSUME luaH_get(t, key) # Nil, NEW a \in Fields \cup {Nil, NoKey}, NEW s, GoingIn(t, a, s)
      PROVE  GoingIn(u, a, s)
  <2>1. Present(t, key)
    BY <1>4, PresentIs
  <2> QED
    BY <1>1, <1>4, <2>1, StoreGoesOn
<1>5. Sane(u) /\ u.flags = w.flags
  BY <1>2 DEF Storing
<1> QED
  BY <1>1, <1>3, <1>4, <1>5 DEF Setting

(* luaH_next goes to a field that has a value and was not visited; if *)
(* there is none, all were.                                           *)
LEMMA NextVisits ==
  ASSUME NEW t, Sane(t), NEW a \in Fields \cup {Nil}, NEW s, s \subseteq Fields, GoingIn(t, a, s),
         NEW entry, entry = luaH_next(t, a)
  PROVE  \/ /\ entry[1] = Nil
            /\ \A key \in Fields : luaH_get(t, key) # Nil => key \in s
         \/ /\ entry[1] \in Fields /\ luaH_get(t, entry[1]) # Nil /\ entry[1] \notin s
            /\ GoingIn(t, entry[1], s \cup {entry[1]})
<1>1. PICK p, rest : p = findindex(t, a) /\ rest = Following(t, p)
  OBVIOUS
<1>2. /\ t \in Table /\ sizearray(t) \in Nat /\ sizenode(t) \in Nat
      /\ a # NoKey /\ NoKey \notin Fields
  BY TableParts, NothingAssumption, KeyKinds DEF Sane
<1>3. /\ p \in 0 .. sizearray(t) + sizenode(t)
      /\ \A i \in PlacesOf(t) : EntryValue(t, i) # Nil => (EntryKey(t, i) \in s <=> i <= p)
  BY <1>1, <1>2 DEF GoingIn
<1>4. \A i : i \in rest <=> i \in PlacesOf(t) /\ p < i /\ EntryValue(t, i) # Nil
  BY <1>1, <1>2, <1>3 DEF Following, PlacesOf
<1>5. entry = First(t, rest)
  BY <1>1 DEF luaH_next
<1>6. CASE rest = {}
  <2>1. entry[1] = Nil
    BY <1>5, <1>6 DEF First
  <2>2. ASSUME NEW key \in Fields, luaH_get(t, key) # Nil PROVE key \in s
    <3>1. PICK i \in PlacesOf(t) : EntryKey(t, i) = key
      BY <2>2, PlaceGot, PlacesKeys
    <3>2. EntryValue(t, i) # Nil
      BY <2>2, <3>1, PlaceGot, PlacesKeys
    <3>3. i \in Nat /\ p \in Nat /\ ~(p < i)
      BY <1>2, <1>3, <1>4, <1>6, <3>2 DEF PlacesOf
    <3> QED
      BY <1>3, <3>1, <3>2, <3>3
  <2> QED
    BY <2>1, <2>2
<1>7. CASE rest # {}
  <2>1. \E x \in rest : \A y \in rest : x <= y
    <3>1. rest \subseteq Nat
      BY <1>2, <1>4 DEF PlacesOf
    <3> QED
      BY <1>7, <3>1, LeastOf
  <2>2. PICK x : x = CHOOSE z \in rest : \A y \in rest : z <= y
    OBVIOUS
  <2>3. x \in rest /\ \A y \in rest : x <= y
    BY <2>1, <2>2, Zenon
  <2>4. PICK key : key = EntryKey(t, x)
    OBVIOUS
  <2>5. entry[1] = key
    BY <1>5, <1>7, <2>2, <2>4 DEF First, Entry
  <2>6. x \in PlacesOf(t) /\ p < x /\ EntryValue(t, x) # Nil /\ x \in Nat /\ p \in Nat
    BY <1>2, <1>3, <1>4, <2>3 DEF PlacesOf
  <2>7. key \in Fields /\ key \in Places
    BY <2>4, <2>6, PlaceGot, PlacesKeys
  <2>8. luaH_get(t, key) # Nil
    BY <2>4, <2>6, <2>7, PlaceGot
  <2>9. key \notin s
    BY <1>3, <2>4, <2>6
  <2>10. findindex(t, key) = x
    BY <2>4, <2>6, FindLive
  <2>11. ASSUME NEW i \in PlacesOf(t), EntryValue(t, i) # Nil
         PROVE  EntryKey(t, i) \in s \cup {key} <=> i <= x
    <3>1. i \in Nat
      BY <1>2 DEF PlacesOf
    <3>2. EntryKey(t, i) = key => i = x
      BY <2>4, <2>6, <2>7, PlaceGot
    <3>3. EntryKey(t, i) \in s <=> i <= p
      BY <1>3, <2>11
    <3>4. i <= p \/ x <= i
      BY <1>4, <2>3, <2>6, <2>11, <3>1
    <3> QED
      BY <2>4, <2>6, <3>1, <3>2, <3>3, <3>4
  <2>12. key # NoKey
    BY <1>2, <2>7
  <2>13. GoingIn(t, key, s \cup {key})
    <3>1. x \in 0 .. sizearray(t) + sizenode(t)
      BY <1>2, <2>6 DEF PlacesOf
    <3> QED
      BY <2>10, <2>11, <2>12, <3>1 DEF GoingIn
  <2> QED
    BY <2>5, <2>7, <2>8, <2>9, <2>13
<1> QED
  BY <1>6, <1>7

--------------------------------------------------------------------------------
(* The invariant. *)
(* The inductive invariant. *)
IInv ==
  /\ Sane(table) /\ at \in Fields \cup {Nil, NoKey} /\ seen \subseteq Fields
  /\ FlagsRight /\ GoingIn(table, at, seen)

(* The kinds of keys and values that the assumptions keep apart. *)
LEMMA Kinds ==
  /\ NoKey # Nil /\ NoKey \notin Fields /\ Nil \notin Fields /\ Value = Values \cup {Nil}
  /\ \A e \in FlaggedEvents : Event(e) \in Places /\ ~IsNumber(Event(e))
BY NothingAssumption, KeyKinds DEF Value, Places, Event, Str, IsNumber

(* A traversal begins with nothing visited. *)
LEMMA Beginning == ASSUME NEW t, Sane(t) PROVE GoingIn(t, Nil, {})
<1>1. sizearray(t) \in Nat /\ sizenode(t) \in Nat /\ findindex(t, Nil) = 0
  BY TableParts DEF Sane, findindex
<1> QED
  BY <1>1, Kinds DEF GoingIn, PlacesOf

(* No event is noted as absent that was not, while the events keep their *)
(* values.                                                               *)
LEMMA FlagsStay ==
  ASSUME IInv, table'.flags \subseteq table.flags,
         \A k \in Places : IsNumber(k) \/ luaH_get(table', k) = luaH_get(table, k)
  PROVE  FlagsRight'
<1> SUFFICES ASSUME NEW e \in table'.flags PROVE luaH_get(table', Event(e)) = Nil
  BY DEF FlagsRight
<1>1. e \in table.flags /\ e \in FlaggedEvents
  BY DEF IInv, Sane, Table
<1>2. luaH_get(table, Event(e)) = Nil
  BY <1>1 DEF IInv, FlagsRight
<1> QED
  BY <1>1, <1>2, Kinds

(* A step that sets a field keeps the invariant. *)
LEMMA SetStep ==
  ASSUME IInv, NEW key \in Fields, NEW val \in Value, Given(key), Setting(table, table', key, val),
         table'.flags = {} \/ IsNumber(key)
  PROVE  IInv'
<1>1. FlagsRight'
  <2>1. CASE table'.flags = {}
    BY <2>1 DEF FlagsRight
  <2>2. CASE IsNumber(key)
    BY <2>2, FlagsStay DEF Setting
  <2> QED
    BY <2>1, <2>2
<1>2. CASE luaH_get(table, key) = Nil
  <2>1. at' = NoKey /\ seen' = {}
    BY <1>2 DEF Given
  <2> QED
    BY <1>1, <2>1 DEF IInv, Setting, GoingIn
<1>3. CASE luaH_get(table, key) # Nil
  <2>1. at' = at /\ seen' = seen
    BY <1>3 DEF Given
  <2>2. GoingIn(table', at, seen)
    BY <1>3 DEF IInv, Setting
  <2> QED
    BY <1>1, <2>1, <2>2 DEF IInv, Setting
<1> QED
  BY <1>2, <1>3

(* Every step keeps the invariant: one case for each action. *)
LEMMA StepsKeep == ASSUME IInv, [Next]_vars PROVE IInv'
<1>0. Sane(table) /\ at \in Fields \cup {Nil, NoKey} /\ seen \subseteq Fields /\ FlagsRight /\ GoingIn(table, at, seen)
  BY DEF IInv
<1>1. ASSUME NEW key \in Fields, SetElsewhere(key) PROVE IInv'
  <2>1. luaH_get(table, key) = Nil /\ at' = NoKey /\ seen' = {} /\ table' = luaH_set(table, key)
    BY <1>1 DEF SetElsewhere, Given
  <2>2. Sane(table') /\ table'.flags = {}
    BY <1>0, <2>1, KeySet
  <2> QED
    BY <2>1, <2>2 DEF IInv, GoingIn, FlagsRight
<1>2. ASSUME NEW key \in Fields, NEW val \in Values \cup {Nil}, Set(key, val) PROVE IInv'
  <2>1. Given(key) /\ table' = Store(luaH_set(table, key), key, val)
    BY <1>2 DEF Set
  <2>2. val \in Value
    BY DEF Value
  <2>3. Setting(table, table', key, val) /\ table'.flags = {}
    BY <1>0, <2>1, <2>2, FieldSet
  <2> QED
    BY <2>1, <2>2, <2>3, SetStep
<1>3. ASSUME NEW key \in Fields, NEW val \in Values \cup {Nil}, SetIndex(key, val) PROVE IInv'
  <2>1. IsNumber(key) /\ Given(key) /\ table' = Store(luaH_setnum(table, key), key, val)
    BY <1>3 DEF SetIndex
  <2>2. val \in Value
    BY DEF Value
  <2>3. Setting(table, table', key, val)
    BY <1>0, <2>1, <2>2, FieldSet
  <2> QED
    BY <2>1, <2>2, <2>3, SetStep
<1>4. ASSUME NEW n \in 1 .. MAXASIZE, Grow(n) PROVE IInv'
  <2>1. at = NoKey /\ n > sizearray(table) /\ table' = luaH_resizearray(table, n) /\ at' = at /\ seen' = seen
    BY <1>4 DEF Grow
  <2>2. /\ Sane(table') /\ table'.flags \subseteq table.flags
        /\ \A k \in Places : luaH_get(table', k) = luaH_get(table, k)
    BY <1>0, <2>1, Growing
  <2>3. FlagsRight'
    BY <2>2, FlagsStay
  <2> QED
    BY <1>0, <2>1, <2>2, <2>3 DEF IInv, GoingIn
<1>5. ASSUME NEW e \in FlaggedEvents, Look(e) PROVE IInv'
  <2>1. /\ luaH_get(table, Event(e)) = Nil /\ at' = at /\ seen' = seen
        /\ table' = [table EXCEPT !.flags = table.flags \cup {e}]
    BY <1>5 DEF Look
  <2>2. table.flags \cup {e} \in SUBSET FlaggedEvents
    BY <1>0 DEF Sane, Table
  <2>3. Flagged(table, table') /\ table'.flags = table.flags \cup {e}
    BY <1>0, <2>1, <2>2, OtherFlags DEF Flagged
  <2>4. Sane(table') /\ \A k \in Places : luaH_get(table', k) = luaH_get(table, k)
    BY <1>0, <2>3, FlaggedSame
  <2>5. GoingIn(table', at, seen)
    BY <1>0, <2>3, FlagsGoOn
  <2>6. ASSUME NEW d \in table'.flags PROVE luaH_get(table', Event(d)) = Nil
    <3>1. d \in FlaggedEvents /\ (d = e \/ d \in table.flags)
      BY <2>2, <2>3, <2>6
    <3>2. luaH_get(table, Event(d)) = Nil
      BY <1>0, <2>1, <3>1 DEF FlagsRight
    <3> QED
      BY <2>4, <3>1, <3>2, Kinds
  <2> QED
    BY <1>0, <2>1, <2>4, <2>5, <2>6 DEF IInv, FlagsRight
<1>6. ASSUME Collect PROVE IInv'
  <2>1. table' = traversetable(table) /\ at' = at /\ seen' = seen
    BY <1>6 DEF Collect
  <2>2. Collecting(table, table')
    BY <1>0, <2>1, Collected
  <2>3. GoingIn(table', at, seen)
    BY <1>0, <2>2, CollectGoesOn
  <2>4. FlagsRight'
    BY <2>2, FlagsStay DEF Collecting
  <2> QED
    BY <1>0, <2>1, <2>2, <2>3, <2>4 DEF IInv, Collecting
<1>7. ASSUME Start PROVE IInv'
  <2>1. table' = table /\ at' = Nil /\ seen' = {}
    BY <1>7 DEF Start
  <2>2. GoingIn(table, Nil, {})
    BY <1>0, Beginning
  <2> QED
    BY <1>0, <2>1, <2>2 DEF IInv, FlagsRight
<1>8. ASSUME Traverse PROVE IInv'
  <2>1. PICK entry : entry = IF findindex(table, at) = -1 THEN <<Nil>> ELSE luaH_next(table, at)
    OBVIOUS
  <2>2. /\ at # NoKey /\ table' = table
        /\ IF entry[1] = Nil THEN at' = Nil /\ seen' = {} ELSE at' = entry[1] /\ seen' = seen \cup {entry[1]}
    BY <1>8, <2>1 DEF Traverse
  <2>3. entry = luaH_next(table, at)
    <3>1. findindex(table, at) \in 0 .. sizearray(table) + sizenode(table)
      BY <1>0, <2>2 DEF GoingIn
    <3> QED
      BY <2>1, <3>1
  <2>4. entry[1] = Nil \/ (entry[1] \in Fields /\ GoingIn(table, entry[1], seen \cup {entry[1]}))
    BY <1>0, <2>2, <2>3, NextVisits
  <2>5. CASE entry[1] = Nil
    <3>1. GoingIn(table, Nil, {})
      BY <1>0, Beginning
    <3> QED
      BY <1>0, <2>2, <2>5, <3>1 DEF IInv, FlagsRight
  <2>6. CASE entry[1] # Nil
    BY <1>0, <2>2, <2>4, <2>6 DEF IInv, FlagsRight
  <2> QED
    BY <2>5, <2>6
<1>9. CASE UNCHANGED vars
  BY <1>0, <1>9 DEF vars, IInv, FlagsRight
<1> QED
  BY <1>1, <1>2, <1>3, <1>4, <1>5, <1>6, <1>7, <1>8, <1>9 DEF Next

(* The invariant holds for a new table. *)
LEMMA InitOK == ASSUME Init PROVE IInv
<1>1. table = luaH_new(0, 0) /\ at = NoKey /\ seen = {}
  BY DEF Init
<1>2. Sane(table) /\ table.flags = FlaggedEvents /\ \A key \in Places : luaH_get(table, key) = Nil
  BY <1>1, NewTable
<1>3. FlagsRight
  BY <1>2, Kinds DEF FlagsRight
<1> QED
  BY <1>1, <1>2, <1>3 DEF IInv, GoingIn

(* IInv holds in every state, whatever sequence of calls led to it. *)
THEOREM Invariance == Spec => []IInv
<1>1. Init => IInv
  BY InitOK
<1>2. IInv /\ [Next]_vars => IInv'
  BY StepsKeep
<1> QED
  BY <1>1, <1>2, PTL DEF Spec

(* TypeOK: array, nodes, links, flags and traversal have their types; a *)
(* node without a live key has no value.                                *)
THEOREM TypeCorrect == Spec => []TypeOK
<1>1. IInv => TypeOK
  <2> SUFFICES ASSUME IInv PROVE TypeOK
    OBVIOUS
  <2>1. /\ Sane(table) /\ at \in Fields \cup {Nil, NoKey} /\ seen \subseteq Fields
        /\ table \in Table /\ sizenode(table) \in Nat /\ sizenode(table) > 0 /\ sizearray(table) <= MAX_INT
    BY TableParts DEF IInv, Sane
  <2>2. table.array \in Seq(Values \cup {Nil}) /\ table.flags \subseteq FlaggedEvents
    BY <2>1 DEF Table, Value
  <2>3. ASSUME NEW n \in 1 .. sizenode(table)
        PROVE  /\ table.node[n].val \in Values \cup {Nil} /\ table.node[n].next \in 0 .. sizenode(table)
               /\ \/ table.node[n].key \in Fields
                  \/ table.node[n].val = Nil /\ (table.node[n].key = Nil \/ table.node[n].key \in {Dead(key) : key \in Fields})
    <3>1. table.node[n] \in Node
      BY <2>1, TableParts
    <3>2. table.node[n].val \in Values \cup {Nil} /\ table.node[n].key \in Fields \cup {Dead(key) : key \in Fields} \cup {Nil}
      BY <3>1 DEF Node, Value, Key, DeadFields
    <3>3. Nexts(table)[n] = table.node[n].next
      BY <2>1, NodeFacts
    <3>4. Nexts(table) \in [1 .. sizenode(table) -> 0 .. sizenode(table)]
      BY <2>1 DEF Sane, Chains, Linked
    <3>5. table.node[n].next \in 0 .. sizenode(table)
      BY <3>3, <3>4
    <3>6. table.node[n].key \notin Fields => table.node[n].val = Nil
      BY <2>1 DEF Sane
    <3> QED
      BY <3>2, <3>5, <3>6
  <2> QED
    BY <2>1, <2>2, <2>3 DEF TypeOK
<1> QED
  BY <1>1, Invariance, PTL

(* TableOK: newkey, rehash, resize and the collector leave every table *)
(* well formed: each field is found from its main position (ltable.c   *)
(* 297-349, 382-429, lgc.c 158-196), and no metamethod is missed.      *)
THEOREM TablesFormed == Spec => []TableOK
<1>1. IInv => TableOK
  <2> SUFFICES ASSUME IInv PROVE TableOK
    OBVIOUS
  <2>1. PICK t : t = table
    OBVIOUS
  <2>2. Sane(t) /\ t \in Table /\ sizenode(t) \in Nat
    BY <2>1, TableParts DEF IInv, Sane
  <2>3. ASSUME NEW n \in UsedNodes(t) PROVE ~InArray(t, t.node[n].key) /\ NodeOf(t, t.node[n].key) = n
    <3>1. n \in 1 .. sizenode(t) /\ t.node[n].val # Nil
      BY DEF UsedNodes
    <3>2. t.node[n].key \in Fields
      BY <2>2, <3>1 DEF Sane
    <3>3. ~InArray(t, t.node[n].key)
      BY <2>2, <3>1, <3>2 DEF Sane
    <3>4. NodeOf(t, t.node[n].key) = n
      BY <2>2, <3>1, <3>2, NodeIs, PlacesKeys
    <3> QED
      BY <3>3, <3>4
  <2>4. ASSUME NEW n \in 1 .. sizenode(t), t.node[n].next # NULL PROVE t.node[n].key # Nil
    <3>1. Nexts(t)[n] # 0 /\ KeysOf(t)[n] = t.node[n].key
      BY <2>2, <2>4, NodeFacts DEF NULL
    <3>2. \A m \in 1 .. sizenode(t) : KeysOf(t)[m] = Nil => Nexts(t)[m] = 0
      BY <2>2 DEF Sane, Chains
    <3> QED
      BY <3>1, <3>2
  <2>5. /\ t.dummy => t.node = <<FreeNode>>
        /\ ~t.dummy => /\ sizenode(t) = twoto[CeilLog2(sizenode(t))]
                       /\ \A n \in t.lastfree .. sizenode(t) : t.node[n].key # Nil
    BY <2>2 DEF Sane
  <2>6. WellFormed(t)
    BY <2>3, <2>4, <2>5 DEF WellFormed
  <2> QED
    BY <2>1, <2>6 DEF TableOK, IInv
<1> QED
  BY <1>1, Invariance, PTL

(* LengthIsBorder: luaH_getn (ltable.c 560-576) gives a border of every *)
(* table a script can make, however large, with the overflow branch of  *)
(* unbound_search.                                                      *)
THEOREM LengthsAreBorders == Spec => []LengthIsBorder
<1>1. IInv => LengthIsBorder
  BY LengthFound DEF IInv, LengthIsBorder
<1> QED
  BY <1>1, Invariance, PTL

(* FlagsRight: no event is noted as absent in the flags (lobject.h 348) *)
(* for which the table has a metamethod; so luaT_gettm and fasttm never *)
(* miss one.                                                            *)
THEOREM FlagsAreRight == Spec => []FlagsRight
<1>1. IInv => FlagsRight
  BY DEF IInv
<1> QED
  BY <1>1, Invariance, PTL

(* RehashOnce: after a rehash there is room for the key it was called     *)
(* for, so luaH_set, newkey and rehash (ltable.c 333-429) call each other *)
(* once at most.                                                          *)
THEOREM RehashesOnce == Spec => []RehashOnce
<1>1. IInv => RehashOnce
  <2> SUFFICES ASSUME IInv, NEW key \in Fields
               PROVE  Present(rehash(table, key), key) \/ ~Crowded(rehash(table, key), key)
    BY Zenon DEF RehashOnce
  <2>1. Sane(table)
    BY DEF IInv
  <2> QED
    BY <2>1, Rehashing
<1> QED
  BY <1>1, Invariance, PTL

--------------------------------------------------------------------------------
(* The map. *)
(* The map of a table. *)
MapOf(t) == [key \in Fields |-> luaH_get(t, key)]

(* Tables that give the same values are the same map. *)
LEMMA SameMap ==
  ASSUME NEW t, NEW u, \A k \in Places : luaH_get(u, k) = luaH_get(t, k)
  PROVE  MapOf(u) = MapOf(t)
BY PlacesKeys DEF MapOf

(* A step that sets a field, and ends a traversal if the field had no *)
(* value, is an assignment of the map.                                *)
LEMMA AssignStep ==
  ASSUME NEW key \in Fields, NEW val \in Values \cup {Nil}, Given(key),
         \A k \in Places : luaH_get(table', k) = IF k = key THEN val ELSE luaH_get(table, k)
  PROVE  Map!Next
<1>1. PICK m, n : m = MapOf(table) /\ n = MapOf(table')
  OBVIOUS
<1>2. n = [m EXCEPT ![key] = val] /\ m[key] = luaH_get(table, key)
  BY <1>1, PlacesKeys DEF MapOf
<1>3. IF m[key] = Nil THEN at' = NoKey /\ seen' = {} ELSE at' = at /\ seen' = seen
  BY <1>2 DEF Given
<1>4. Map!Assign(key, val)
  BY <1>1, <1>2, <1>3 DEF Map!Assign, MapOf
<1> QED
  BY <1>4 DEF Map!Next

(* Every step of the table is a step of the map or leaves it as it is. *)
LEMMA Refines == ASSUME IInv, [Next]_vars PROVE [Map!Next]_<<MapOf(table), at, seen>>
<1>0. Sane(table) /\ at \in Fields \cup {Nil, NoKey} /\ seen \subseteq Fields /\ GoingIn(table, at, seen)
  BY DEF IInv
<1>1. ASSUME NEW key \in Fields, SetElsewhere(key) PROVE Map!Next
  <2>1. luaH_get(table, key) = Nil /\ Given(key) /\ table' = luaH_set(table, key)
    BY <1>1 DEF SetElsewhere
  <2>2. \A k \in Places : luaH_get(table', k) = luaH_get(table, k)
    BY <1>0, <2>1, KeySet
  <2>3. \A k \in Places : luaH_get(table', k) = IF k = key THEN Nil ELSE luaH_get(table, k)
    BY <2>1, <2>2
  <2> QED
    BY <2>1, <2>3, AssignStep
<1>2. ASSUME NEW key \in Fields, NEW val \in Values \cup {Nil}, Set(key, val) PROVE Map!Next
  <2>1. Given(key) /\ table' = Store(luaH_set(table, key), key, val)
    BY <1>2 DEF Set
  <2>2. val \in Value
    BY DEF Value
  <2>3. Setting(table, table', key, val)
    BY <1>0, <2>1, <2>2, FieldSet
  <2> QED
    BY <2>1, <2>3, AssignStep DEF Setting
<1>3. ASSUME NEW key \in Fields, NEW val \in Values \cup {Nil}, SetIndex(key, val) PROVE Map!Next
  <2>1. Given(key) /\ table' = Store(luaH_setnum(table, key), key, val)
    BY <1>3 DEF SetIndex
  <2>2. val \in Value
    BY DEF Value
  <2>3. Setting(table, table', key, val)
    BY <1>0, <2>1, <2>2, FieldSet
  <2> QED
    BY <2>1, <2>3, AssignStep DEF Setting
<1>4. ASSUME NEW n \in 1 .. MAXASIZE, Grow(n) PROVE UNCHANGED <<MapOf(table), at, seen>>
  <2>1. n > sizearray(table) /\ table' = luaH_resizearray(table, n) /\ at' = at /\ seen' = seen
    BY <1>4 DEF Grow
  <2>2. \A k \in Places : luaH_get(table', k) = luaH_get(table, k)
    BY <1>0, <2>1, Growing
  <2>3. MapOf(table') = MapOf(table)
    BY <2>2, SameMap
  <2> QED
    BY <2>1, <2>3
<1>5. ASSUME NEW e \in FlaggedEvents, Look(e) PROVE UNCHANGED <<MapOf(table), at, seen>>
  <2>1. at' = at /\ seen' = seen /\ table' = [table EXCEPT !.flags = table.flags \cup {e}]
    BY <1>5 DEF Look
  <2>2. table.flags \cup {e} \in SUBSET FlaggedEvents
    BY <1>0 DEF Sane, Table
  <2>3. \A k \in Places : luaH_get(table', k) = luaH_get(table, k)
    BY <1>0, <2>1, <2>2, OtherFlags
  <2>4. MapOf(table') = MapOf(table)
    BY <2>3, SameMap
  <2> QED
    BY <2>1, <2>4
<1>6. ASSUME Collect PROVE UNCHANGED <<MapOf(table), at, seen>>
  <2>1. table' = traversetable(table) /\ at' = at /\ seen' = seen
    BY <1>6 DEF Collect
  <2>2. \A k \in Places : luaH_get(table', k) = luaH_get(table, k)
    BY <1>0, <2>1, Collected DEF Collecting
  <2>3. MapOf(table') = MapOf(table)
    BY <2>2, SameMap
  <2> QED
    BY <2>1, <2>3
<1>7. ASSUME Start PROVE Map!Next
  <2>1. at = NoKey /\ at' = Nil /\ seen' = {} /\ MapOf(table') = MapOf(table)
    BY <1>7 DEF Start
  <2>2. Map!Start
    BY <2>1 DEF Map!Start, MapOf
  <2> QED
    BY <2>2 DEF Map!Next
<1>8. ASSUME Traverse PROVE Map!Next
  <2>1. PICK entry : entry = IF findindex(table, at) = -1 THEN <<Nil>> ELSE luaH_next(table, at)
    OBVIOUS
  <2>2. /\ at # NoKey /\ table' = table
        /\ IF entry[1] = Nil THEN at' = Nil /\ seen' = {} ELSE at' = entry[1] /\ seen' = seen \cup {entry[1]}
    BY <1>8, <2>1 DEF Traverse
  <2>3. entry = luaH_next(table, at)
    <3>1. findindex(table, at) \in 0 .. sizearray(table) + sizenode(table)
      BY <1>0, <2>2 DEF GoingIn
    <3> QED
      BY <2>1, <3>1
  <2>4. \/ entry[1] = Nil /\ \A key \in Fields : luaH_get(table, key) # Nil => key \in seen
        \/ entry[1] \in Fields /\ luaH_get(table, entry[1]) # Nil /\ entry[1] \notin seen
    BY <1>0, <2>2, <2>3, NextVisits
  <2>5. PICK m : m = MapOf(table)
    OBVIOUS
  <2>6. MapOf(table') = m /\ \A key \in Fields : m[key] = luaH_get(table, key)
    BY <2>2, <2>5 DEF MapOf
  <2>7. CASE entry[1] = Nil
    <3>1. \A key \in Fields : luaH_get(table, key) # Nil => key \in seen
      BY <2>4, <2>7, Kinds
    <3>2. at # NoKey /\ at' = Nil /\ seen' = {} /\ \A key \in Fields : m[key] # Nil => key \in seen
      BY <2>2, <2>6, <2>7, <3>1
    <3>3. Map!Finish
      BY <2>5, <2>6, <3>2 DEF Map!Finish, MapOf
    <3> QED
      BY <3>3 DEF Map!Next
  <2>8. CASE entry[1] # Nil
    <3>1. PICK k \in Fields : k = entry[1] /\ m[k] # Nil /\ k \notin seen
      BY <2>4, <2>6, <2>8
    <3>2. at # NoKey /\ at' = k /\ seen' = seen \cup {k}
      BY <2>2, <2>8, <3>1
    <3>3. Map!Visit(k)
      BY <2>5, <2>6, <3>1, <3>2 DEF Map!Visit, MapOf
    <3> QED
      BY <3>3 DEF Map!Next
  <2> QED
    BY <2>7, <2>8
<1>9. CASE UNCHANGED vars
  BY <1>9 DEF vars
<1> QED
  BY <1>1, <1>2, <1>3, <1>4, <1>5, <1>6, <1>7, <1>8, <1>9 DEF Next

(* IsMap: a table is a map, and next visits each of its fields once: the  *)
(* table with its array, nodes, chains, dead keys and rehashes implements *)
(* LuaMap.                                                                *)
THEOREM TableIsMap == Spec => IsMap
<1>1. Init => Map!Init
  <2> SUFFICES ASSUME Init PROVE Map!Init
    OBVIOUS
  <2>1. \A key \in Fields : luaH_get(table, key) = Nil
    BY NewTable, PlacesKeys DEF Init
  <2> QED
    BY <2>1 DEF Init, Map!Init
<1>2. IInv /\ [Next]_vars => [Map!Next]_<<[key \in Fields |-> luaH_get(table, key)], at, seen>>
  BY Refines DEF MapOf
<1> QED
  BY <1>1, <1>2, Invariance, PTL DEF Spec, IsMap, Map!Spec
================================================================================
