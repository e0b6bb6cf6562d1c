------------------------------ MODULE LuaGC_proofs ------------------------------
(***************************************************************************)
(* Proofs about the collector, for every heap and every number of          *)
(* operations between its steps: the order in which userdata are separated *)
(* from the others, finalized and freed, and its lists (IInv); that no     *)
(* reference dangles (HeldInv, with the invariant of the three colours);   *)
(* the types; and that garbage is freed in the cycle that finds it (Lost). *)
(***************************************************************************)
EXTENDS LuaGC, FiniteSetTheorems, TLAPS

Colours == Whites \cup {"gray", "black", "free"}
Waiting == Tables \cup Closures \cup Protos \cup Threads

(* The part of the types that the proofs use. *)
Kinds ==
  /\ currentwhite \in Whites /\ marked \in [Obj -> Colours]
  /\ meta \in [Tables \cup Userdata -> Tables \cup {Nil}]
  /\ env \in [Closures \cup Userdata \cup Threads -> Tables \cup {Nil}]
  /\ running \in Threads
  /\ gray \cup grayagain \cup weak \subseteq Waiting

(* Only what was separated was finalized, and no longer waits for it. *)
Calls ==
  /\ tmudata \subseteq finalized /\ finalized \subseteq Userdata
  /\ called \in [Userdata -> Nat]
  /\ \A u \in Userdata : called[u] = 0 \/ (called[u] = 1 /\ u \in finalized \ tmudata)
  /\ \A u \in tmudata : Exists(u)

(* A dead userdata was separated, has been finalized if it had to be, and  *)
(* is still to be swept; so was a white one that is dead next.             *)
Separation ==
  closing = "no" =>
    \A u \in Userdata :
      /\ IsDead(u) => /\ gcstate \in {"sweepstring", "sweep"}
                      /\ u \in sweepgc /\ u \in finalized \ tmudata
      /\ IsWhite(u) /\ gcstate = "preserve" => u \in finalized \ tmudata

IInv == Kinds /\ Calls /\ Separation /\ OneList

--------------------------------------------------------------------------------
(* Colours.                                                                *)
LEMMA TwoWhites ==
  ASSUME currentwhite \in Whites
  PROVE  /\ otherwhite \in Whites /\ otherwhite # currentwhite
         /\ Whites = {currentwhite, otherwhite}
         /\ {currentwhite, otherwhite} \cap {"gray", "black", "free"} = {}
         /\ Other(otherwhite) = currentwhite
<1>1. PICK w \in Whites : \E x \in Whites \ {w} : Whites = {w, x}
  BY WhitesAssumption
<1>2. PICK x \in Whites \ {w} : Whites = {w, x}
  BY <1>1
<1>3. \A y \in Whites : Other(y) \in Whites /\ Other(y) # y
  BY <1>2 DEF Other
<1>. QED BY <1>2, <1>3, WhitesAssumption DEF otherwhite

LEMMA MarkedAreWhite ==
  ASSUME NEW S
  PROVE  NewlyMarked(S) \subseteq {o \in Obj : IsWhite(o)}
BY DEF NewlyMarked, White

LEMMA MarkingColours ==
  ASSUME Kinds, NEW M, M \subseteq {o \in Obj : IsWhite(o)}
  PROVE  LET new == Marking(marked, M)
         IN /\ new \in [Obj -> Colours]
            /\ \A o \in Obj \ M : new[o] = marked[o]
            /\ \A o \in M : new[o] \in {"gray", "black"}
            /\ \A o \in M \cap Waiting : new[o] = "gray"
            /\ ToTraverse(M) = M \cap Waiting
BY KindsAssumption DEF Marking, ColourOf, ToTraverse, Waiting, Colours, Kinds, Obj

--------------------------------------------------------------------------------
(* What the operations of scripts have in common, for userdata...          *)
Mutates ==
  /\ gcstate \notin atomicStates
  /\ UNCHANGED <<currentwhite, gcstate, closing, tmudata>>
  /\ sweepgc \subseteq sweepgc'
  /\ \A o \in Userdata : marked'[o] \in {marked[o], "gray", "black", currentwhite}
  /\ finalized' \subseteq Userdata /\ called' \in [Userdata -> Nat]
  /\ \A u \in Userdata :
       \/ called'[u] = called[u] /\ (u \in finalized' <=> u \in finalized)
       \/ ~Exists(u) /\ marked'[u] = currentwhite /\ called'[u] = 0

(* ... and for the lists: while the collector marks, what comes to one was *)
(* in none before, as its colour shows.                                    *)
Lists ==
  gcstate = "propagate" /\ closing = "no" =>
    /\ weak' = weak
    /\ \A o \in gray \cup grayagain \cup weak : marked'[o] = "gray"
    /\ \A o \in gray' \ gray : IsWhite(o) /\ marked'[o] = "gray"
    /\ \A o \in grayagain' \ grayagain : IsBlack(o) /\ marked'[o] = "gray"

LEMMA NoneInList ==
  ASSUME IInv
  PROVE  gcstate = "propagate" /\ closing = "no" =>
           \A o \in gray \cup grayagain \cup weak :
             o \in Obj /\ o \in Waiting /\ marked[o] = "gray"
BY DEF IInv, OneList, Marks, Kinds, Waiting, Obj

(* Only a dead userdata is freed before the state is closed. *)
Frees == \A u \in Userdata : Exists(u) /\ ~Exists(u)' /\ closing = "no" => IsDead(u)

LEMMA Mutation ==
  ASSUME IInv, Mutates, Lists, Kinds'
  PROVE  IInv' /\ Frees
<1>1. /\ otherwhite # currentwhite /\ Whites = {currentwhite, otherwhite}
      /\ {currentwhite, otherwhite} \cap {"gray", "black", "free"} = {}
      /\ otherwhite' = otherwhite
  BY TwoWhites DEF IInv, Kinds, Mutates, otherwhite
<1>2. Calls'
  <2>1. tmudata' \subseteq finalized' /\ \A u \in tmudata' : Exists(u)'
    BY <1>1 DEF IInv, Calls, Mutates, Exists
  <2>2. \A u \in Userdata : called'[u] = 0 \/ (called'[u] = 1 /\ u \in finalized' \ tmudata')
    BY DEF IInv, Calls, Mutates, Exists
  <2>. QED BY <2>1, <2>2 DEF Calls, Mutates
<1>3. Separation'
  <2>. SUFFICES ASSUME closing' = "no", NEW u \in Userdata, IsDead(u)'
                PROVE  /\ gcstate' \in {"sweepstring", "sweep"}
                       /\ u \in sweepgc' /\ u \in finalized' \ tmudata'
    BY DEF Separation, Mutates, atomicStates
  <2>1. closing = "no" /\ IsDead(u) /\ Exists(u)
    BY <1>1 DEF Mutates, IsDead, Exists
  <2>. QED BY <2>1 DEF IInv, Separation, Mutates
<1>4. OneList'
  <2>. SUFFICES ASSUME closing' = "no", gcstate' = "propagate" PROVE OneList'
    BY DEF OneList, Marks, Mutates
  <2>1. /\ closing = "no" /\ gcstate = "propagate" /\ Lists /\ OneList
        /\ gray \cap grayagain = {} /\ gray \cap weak = {} /\ grayagain \cap weak = {}
        /\ \A o \in gray \cup grayagain \cup weak : marked[o] = "gray"
    BY DEF IInv, OneList, Marks, Mutates
  <2>2. \A o \in gray' \cup grayagain' \cup weak' : marked'[o] = "gray"
    BY <2>1 DEF Lists
  <2>3. /\ gray' \cap grayagain' = {} /\ gray' \cap weak' = {} /\ grayagain' \cap weak' = {}
    BY <1>1, <2>1 DEF Lists, IsWhite, IsBlack
  <2>. QED BY <2>2, <2>3 DEF OneList
<1>5. Frees
  BY <1>1 DEF Frees, Mutates, Exists
<1>. QED BY <1>2, <1>3, <1>4, <1>5 DEF IInv

--------------------------------------------------------------------------------
(* The barriers.                                                           *)
LEMMA Forward ==
  ASSUME IInv, NEW o, NEW v, BarrierForward(marked, o, v), ScriptsRun
  PROVE  /\ marked' \in [Obj -> Colours]
         /\ \A x \in Obj : marked'[x] \in {marked[x], "gray", "black", currentwhite}
         /\ gray' \subseteq Waiting
         /\ grayagain' = grayagain /\ weak' = weak => Lists
<1>. DEFINE M == NewlyMarked({v})
<1>1. Kinds /\ M \subseteq {x \in Obj : IsWhite(x)}
  BY MarkedAreWhite DEF IInv
<1>. HIDE DEF M
<1>2. CASE v \in Obj /\ IsWhite(v) /\ marked[o] = "black" /\ gcstate = "propagate"
  <2>1. marked' = Marking(marked, M) /\ gray' = gray \cup (M \cap Waiting)
    BY <1>1, <1>2, MarkingColours DEF BarrierForward, M
  <2>2. /\ marked' \in [Obj -> Colours]
        /\ \A x \in Obj \ M : marked'[x] = marked[x]
        /\ \A x \in M : marked'[x] \in {"gray", "black"}
        /\ \A x \in M \cap Waiting : marked'[x] = "gray"
    BY <1>1, <2>1, MarkingColours
  <2>3. gray' \subseteq Waiting
    BY <1>1, <2>1 DEF Kinds
  <2>4. ASSUME grayagain' = grayagain, weak' = weak PROVE Lists
    <3>. SUFFICES ASSUME closing = "no" PROVE Lists
      BY DEF Lists
    <3>1. \A x \in gray \cup grayagain \cup weak : x \in Obj \ M /\ marked[x] = "gray"
      BY <1>1, <1>2, NoneInList, TwoWhites DEF IsWhite, Kinds
    <3>. QED BY <1>1, <2>1, <2>2, <2>4, <3>1 DEF Lists
  <2>. QED BY <2>2, <2>3, <2>4
<1>3. CASE v \in Obj /\ IsWhite(v) /\ marked[o] = "black" /\ gcstate # "propagate"
  <2>1. marked' = Whitened(marked, {o}) /\ gray' = gray
    BY <1>3 DEF BarrierForward
  <2>. QED BY <1>1, <1>3, <2>1 DEF Whitened, Kinds, Colours, Lists
<1>4. CASE ~(v \in Obj /\ IsWhite(v) /\ marked[o] = "black")
  <2>1. marked' = marked /\ gray' = gray
    BY <1>4 DEF BarrierForward
  <2>. QED BY <1>1, <2>1, NoneInList DEF Kinds, Lists
<1>. QED BY <1>2, <1>3, <1>4

LEMMA Back ==
  ASSUME IInv, NEW t \in Tables, NEW S, BarrierBack(t, S)
  PROVE  /\ marked' \in [Obj -> Colours]
         /\ \A x \in Obj : marked'[x] \in {marked[x], "gray", "black", currentwhite}
         /\ grayagain' \subseteq Waiting
         /\ gray' = gray /\ weak' = weak => Lists
<1>1. Kinds /\ t \in Obj /\ t \in Waiting
  BY DEF IInv, Obj, Waiting
<1>2. CASE IsBlack(t) /\ White(S) # {}
  <2>1. marked' = [marked EXCEPT ![t] = "gray"] /\ grayagain' = grayagain \cup {t}
    BY <1>2 DEF BarrierBack
  <2>. QED BY <1>1, <1>2, <2>1, NoneInList DEF Kinds, Colours, Lists
<1>3. CASE ~(IsBlack(t) /\ White(S) # {})
  <2>1. marked' = marked /\ grayagain' = grayagain
    BY <1>3 DEF BarrierBack
  <2>. QED BY <1>1, <2>1, NoneInList DEF Kinds, Lists
<1>. QED BY <1>2, <1>3

--------------------------------------------------------------------------------
(* Operations that create objects.                                         *)
LEMMA Whitens ==
  ASSUME IInv, UNCHANGED listVars, marked' = [o \in Obj |-> marked'[o]],
         \A x \in Obj : \/ marked'[x] = marked[x]
                        \/ marked'[x] = currentwhite /\ (Exists(x) => x \notin Waiting)
  PROVE  /\ marked' \in [Obj -> Colours]
         /\ \A x \in Obj : marked'[x] \in {marked[x], currentwhite}
         /\ Lists /\ gray' \cup grayagain' \cup weak' \subseteq Waiting
<1>1. Kinds
  BY DEF IInv
<1>2. marked' \in [Obj -> Colours]
  BY <1>1 DEF Kinds, Colours
<1>3. gray' = gray /\ grayagain' = grayagain /\ weak' = weak
  BY DEF listVars
<1>4. Lists
  BY <1>1, <1>3, NoneInList DEF Lists, Exists
<1>. QED BY <1>1, <1>2, <1>3, <1>4 DEF Kinds

LEMMA Allocates ==
  ASSUME IInv, NEW S, \A o \in S \cap Obj : ~Exists(o),
         marked' = [o \in Obj |-> IF o \in S THEN currentwhite ELSE marked[o]],
         UNCHANGED listVars
  PROVE  /\ marked' \in [Obj -> Colours]
         /\ \A x \in Obj : marked'[x] \in {marked[x], currentwhite}
         /\ Lists /\ gray' \cup grayagain' \cup weak' \subseteq Waiting
<1>1. \A x \in Obj : \/ marked'[x] = marked[x]
                     \/ marked'[x] = currentwhite /\ (Exists(x) => x \notin Waiting)
  OBVIOUS
<1>2. marked' = [o \in Obj |-> marked'[o]]
  OBVIOUS
<1>. QED BY <1>1, <1>2, Whitens

LEMMA Links ==
  ASSUME NEW S, Link(S)
  PROVE  sweepgc \subseteq sweepgc'
BY DEF Link

LEMMA CreateNewTable ==
  ASSUME IInv, NEW t \in Tables, NEW l \in Level, NewTable(t, l)
  PROVE  IInv' /\ Frees
<1>1. /\ Operation /\ New(t) /\ Link({t}) /\ marked' = [marked EXCEPT ![t] = currentwhite]
      /\ UNCHANGED <<running, listVars, phaseVars, env, udataVars>>
      /\ meta' = [meta EXCEPT ![t] = Nil]
  BY DEF NewTable, Alloc
<1>2. Kinds /\ t \in Obj /\ Calls
  BY DEF IInv, Obj
<1>3. marked' = [o \in Obj |-> IF o \in {t} THEN currentwhite ELSE marked[o]]
  BY <1>1, <1>2 DEF Kinds
<1>4. /\ marked' \in [Obj -> Colours]
      /\ \A x \in Obj : marked'[x] \in {marked[x], currentwhite}
      /\ Lists /\ gray' \cup grayagain' \cup weak' \subseteq Waiting
  BY <1>1, <1>2, <1>3, Allocates DEF New
<1>5. Kinds'
  BY <1>1, <1>2, <1>4 DEF Kinds, phaseVars
<1>6. Mutates
  BY <1>1, <1>2, <1>4, Links
     DEF Mutates, Operation, ScriptsRun, phaseVars, udataVars, Calls, Obj
<1>. QED BY <1>4, <1>5, <1>6, Mutation

LEMMA CreateNewUserdata ==
  ASSUME IInv, NEW u \in Userdata, NEW l \in Level, NewUserdata(u, l)
  PROVE  IInv' /\ Frees
<1>1. /\ Operation /\ New(u) /\ Link({u}) /\ marked' = [marked EXCEPT ![u] = currentwhite]
      /\ UNCHANGED <<running, listVars, phaseVars, tmudata>>
      /\ meta' = [meta EXCEPT ![u] = Nil]
      /\ env' = [env EXCEPT ![u] = env[running]]
      /\ finalized' = finalized \ {u} /\ called' = [called EXCEPT ![u] = 0]
  BY DEF NewUserdata, Alloc
<1>2. Kinds /\ u \in Obj /\ Calls
  BY DEF IInv, Obj
<1>3. marked' = [o \in Obj |-> IF o \in {u} THEN currentwhite ELSE marked[o]]
  BY <1>1, <1>2 DEF Kinds
<1>4. /\ marked' \in [Obj -> Colours]
      /\ \A x \in Obj : marked'[x] \in {marked[x], currentwhite}
      /\ Lists /\ gray' \cup grayagain' \cup weak' \subseteq Waiting
  BY <1>1, <1>2, <1>3, Allocates DEF New
<1>5. Kinds'
  BY <1>1, <1>2, <1>4 DEF Kinds, phaseVars
<1>6. \A x \in Userdata : \/ called'[x] = called[x] /\ (x \in finalized' <=> x \in finalized)
                          \/ ~Exists(x) /\ marked'[x] = currentwhite /\ called'[x] = 0
  BY <1>1, <1>2, <1>3 DEF Calls, New
<1>7. Mutates
  BY <1>1, <1>2, <1>4, <1>6, Links
     DEF Mutates, Operation, ScriptsRun, phaseVars, Calls, Obj
<1>. QED BY <1>4, <1>5, <1>7, Mutation

LEMMA CreateNewThread ==
  ASSUME IInv, NEW th \in Threads, NEW l \in Level, NewThread(th, l)
  PROVE  IInv' /\ Frees
<1>1. /\ Operation /\ New(th) /\ Link({th}) /\ marked' = [marked EXCEPT ![th] = currentwhite]
      /\ UNCHANGED <<running, listVars, phaseVars, tableVars, udataVars>>
      /\ env' = [env EXCEPT ![th] = env[running]]
  BY DEF NewThread
<1>2. Kinds /\ th \in Obj /\ Calls
  BY DEF IInv, Obj
<1>3. marked' = [o \in Obj |-> IF o \in {th} THEN currentwhite ELSE marked[o]]
  BY <1>1, <1>2 DEF Kinds
<1>4. /\ marked' \in [Obj -> Colours]
      /\ \A x \in Obj : marked'[x] \in {marked[x], currentwhite}
      /\ Lists /\ gray' \cup grayagain' \cup weak' \subseteq Waiting
  BY <1>1, <1>2, <1>3, Allocates DEF New
<1>5. Kinds'
  BY <1>1, <1>2, <1>4 DEF Kinds, phaseVars, tableVars
<1>6. Mutates
  BY <1>1, <1>2, <1>4, Links
     DEF Mutates, Operation, ScriptsRun, phaseVars, udataVars, Calls, Obj
<1>. QED BY <1>4, <1>5, <1>6, Mutation

LEMMA CreateString ==
  ASSUME IInv, NEW s \in Strings, NEW l \in Level, Intern(s, l)
  PROVE  IInv' /\ Frees
<1>1. /\ Operation
      /\ marked' = [marked EXCEPT ![s] = IF Exists(s) THEN Revived(s) ELSE currentwhite]
      /\ UNCHANGED <<running, listVars, sweepVars, phaseVars, tableVars, env, udataVars>>
  BY DEF Intern
<1>2. Kinds /\ s \in Obj /\ Calls /\ s \notin Waiting
  BY KindsAssumption DEF IInv, Obj, Waiting
<1>3. /\ marked' \in [Obj -> Colours]
      /\ \A x \in Obj : marked'[x] \in {marked[x], currentwhite}
      /\ Lists /\ gray' \cup grayagain' \cup weak' \subseteq Waiting
  <2>1. \A x \in Obj : marked'[x] = marked[x] \/ (marked'[x] = currentwhite /\ x \notin Waiting)
    BY <1>1, <1>2 DEF Kinds, Revived
  <2>2. marked' = [o \in Obj |-> marked'[o]]
    BY <1>1, <1>2 DEF Kinds
  <2>. QED BY <1>1, <2>1, <2>2, Whitens
<1>4. Kinds'
  BY <1>1, <1>2, <1>3 DEF Kinds, phaseVars, tableVars
<1>5. Mutates
  BY <1>1, <1>2, <1>3 DEF Mutates, Operation, ScriptsRun, phaseVars, udataVars, sweepVars, Calls, Obj
<1>. QED BY <1>3, <1>4, <1>5, Mutation

LEMMA CreateMethod ==
  ASSUME IInv, NEW c \in Methods, NEW l \in Level, PushMethod(c, l)
  PROVE  IInv' /\ Frees
<1>1. /\ Operation /\ New(c) /\ Link({c}) /\ marked' = [marked EXCEPT ![c] = currentwhite]
      /\ UNCHANGED <<running, listVars, phaseVars, tableVars, udataVars>>
      /\ env' = [env EXCEPT ![c] = env[running]]
  BY DEF PushMethod, Alloc
<1>2. Kinds /\ c \in Obj /\ Calls
  BY KindsAssumption DEF IInv, Obj
<1>3. marked' = [o \in Obj |-> IF o \in {c} THEN currentwhite ELSE marked[o]]
  BY <1>1, <1>2 DEF Kinds
<1>4. /\ marked' \in [Obj -> Colours]
      /\ \A x \in Obj : marked'[x] \in {marked[x], currentwhite}
      /\ Lists /\ gray' \cup grayagain' \cup weak' \subseteq Waiting
  BY <1>1, <1>2, <1>3, Allocates DEF New
<1>5. Kinds'
  BY <1>1, <1>2, <1>4 DEF Kinds, phaseVars, tableVars
<1>6. Mutates
  BY <1>1, <1>2, <1>4, Links
     DEF Mutates, Operation, ScriptsRun, phaseVars, udataVars, Calls, Obj
<1>. QED BY <1>4, <1>5, <1>6, Mutation

LEMMA LoadFile ==
  ASSUME IInv, NEW c, NEW p, NEW q, NEW s, NEW l \in Level, Load(c, p, q, s, l)
  PROVE  IInv' /\ Frees
<1>. DEFINE new == {c, p} \cup ({q} \ {Nil})
<1>1. /\ Operation /\ Link(new) /\ marked' = Whitened(marked, new)
      /\ \A o \in new : ~Exists(o)
      /\ UNCHANGED <<running, listVars, phaseVars, tableVars, udataVars>>
      /\ env' = [env EXCEPT ![c] = env[running]]
  BY DEF Load
<1>. HIDE DEF new
<1>2. Kinds /\ Calls
  BY DEF IInv
<1>3. marked' = [o \in Obj |-> IF o \in new THEN currentwhite ELSE marked[o]]
  BY <1>1 DEF Whitened
<1>4. /\ marked' \in [Obj -> Colours]
      /\ \A x \in Obj : marked'[x] \in {marked[x], currentwhite}
      /\ Lists /\ gray' \cup grayagain' \cup weak' \subseteq Waiting
  BY <1>1, <1>3, Allocates
<1>5. Kinds'
  BY <1>1, <1>2, <1>4 DEF Kinds, phaseVars, tableVars
<1>6. Mutates
  BY <1>1, <1>2, <1>4, Links
     DEF Mutates, Operation, ScriptsRun, phaseVars, udataVars, Calls, Obj
<1>. QED BY <1>4, <1>5, <1>6, Mutation

LEMMA CreateClosure ==
  ASSUME IInv, NEW f \in Closures, NEW c \in Closures, NEW u \in UpVals \cup {Nil},
         NEW l \in Level, NewClosure(f, c, u, l)
  PROVE  IInv' /\ Frees
<1>1. /\ Operation /\ Link({c}) /\ ~Exists(c)
      /\ UNCHANGED <<running, listVars, phaseVars, tableVars, udataVars>>
      /\ env' = [env EXCEPT ![c] = env[f]]
  BY DEF NewClosure
<1>2. Kinds /\ Calls
  BY DEF IInv
<1>3. /\ \A x \in Obj : \/ marked'[x] = marked[x]
                        \/ marked'[x] = currentwhite /\ (Exists(x) => x \notin Waiting)
      /\ marked' = [o \in Obj |-> marked'[o]]
  <2>. DEFINE new == IF u = Nil \/ Exists(u) THEN {} ELSE {u}
  <2>1. marked' = [o \in Obj |-> IF o \in {c} \cup new THEN currentwhite
                                 ELSE IF o = u /\ place'[u] # Closed THEN Revived(o)
                                 ELSE marked[o]]
    BY DEF NewClosure
  <2>2. \A o \in Obj : o = u => o \notin Waiting
    BY KindsAssumption DEF Waiting
  <2>3. \A o \in {c} \cup new : ~Exists(o)
    BY <1>1
  <2>. HIDE DEF new
  <2>. QED BY <2>1, <2>2, <2>3 DEF Revived
<1>4. /\ marked' \in [Obj -> Colours]
      /\ \A x \in Obj : marked'[x] \in {marked[x], currentwhite}
      /\ Lists /\ gray' \cup grayagain' \cup weak' \subseteq Waiting
  BY <1>1, <1>3, Whitens
<1>5. Kinds'
  BY <1>1, <1>2, <1>4 DEF Kinds, phaseVars, tableVars
<1>6. Mutates
  BY <1>1, <1>2, <1>4, Links
     DEF Mutates, Operation, ScriptsRun, phaseVars, udataVars, Calls, Obj
<1>. QED BY <1>4, <1>5, <1>6, Mutation

--------------------------------------------------------------------------------
(* Operations on what is there.                                            *)
LEMMA Unmarks ==
  ASSUME IInv, Operation, Unmarked, UNCHANGED <<tableVars, env>>, running' \in Threads
  PROVE  IInv' /\ Frees
<1>1. Kinds /\ Calls
  BY DEF IInv
<1>2. Kinds'
  BY <1>1 DEF Kinds, Unmarked, phaseVars, tableVars, listVars
<1>3. Lists
  BY NoneInList DEF Lists, Unmarked, listVars
<1>4. Mutates
  BY <1>1 DEF Mutates, Operation, ScriptsRun, Unmarked, phaseVars, udataVars, sweepVars, Calls
<1>. QED BY <1>2, <1>3, <1>4, Mutation

LEMMA Moves ==
  ASSUME IInv, NEW l \in Level, NEW v, Move(l, v)
  PROVE  IInv' /\ Frees
<1>1. running' \in Threads
  BY DEF Move, IInv, Kinds
<1>. QED BY <1>1, Unmarks DEF Move

LEMMA SetsStringMetatable ==
  ASSUME IInv, NEW m, SetStringMetatable(m)
  PROVE  IInv' /\ Frees
<1>1. running' \in Threads
  BY DEF SetStringMetatable, threadVars, IInv, Kinds
<1>. QED BY <1>1, Unmarks DEF SetStringMetatable

LEMMA Switches ==
  ASSUME IInv, NEW th \in Threads, Resume(th) \/ Yield(th)
  PROVE  IInv' /\ Frees
<1>1. running' \in Threads
  BY DEF Resume, Yield
<1>. QED BY <1>1, Unmarks DEF Resume, Yield

LEMMA SetsTable ==
  ASSUME IInv, NEW t \in Tables, NEW n \in Node, NEW kk, NEW v, SetTable(t, n, kk, v)
  PROVE  IInv' /\ Frees
<1>. DEFINE S == IF Entry(t, n) THEN {v} ELSE {kk, v}
<1>1. /\ Operation /\ BarrierBack(t, S)
      /\ UNCHANGED <<running, gray, weak, sweepVars, phaseVars, meta, env, udataVars>>
  BY DEF SetTable, threadVars
<1>. HIDE DEF S
<1>2. Kinds /\ Calls
  BY DEF IInv
<1>3. /\ marked' \in [Obj -> Colours]
      /\ \A x \in Obj : marked'[x] \in {marked[x], "gray", "black", currentwhite}
      /\ grayagain' \subseteq Waiting /\ Lists
  BY <1>1, Back
<1>4. Kinds'
  BY <1>1, <1>2, <1>3 DEF Kinds, phaseVars
<1>5. Mutates
  BY <1>1, <1>2, <1>3 DEF Mutates, Operation, ScriptsRun, phaseVars, udataVars, sweepVars, Calls, Obj
<1>. QED BY <1>3, <1>4, <1>5, Mutation

LEMMA SetsMetatable ==
  ASSUME IInv, NEW o \in Tables \cup Userdata, NEW m \in Tables \cup {Nil}, SetMetatable(o, m)
  PROVE  IInv' /\ Frees
<1>1. /\ Operation /\ meta' = [meta EXCEPT ![o] = m]
      /\ UNCHANGED <<running, weak, sweepVars, phaseVars, env, udataVars>>
  BY DEF SetMetatable, threadVars
<1>2. Kinds /\ Calls
  BY DEF IInv
<1>3. /\ marked' \in [Obj -> Colours]
      /\ \A x \in Obj : marked'[x] \in {marked[x], "gray", "black", currentwhite}
      /\ gray' \cup grayagain' \subseteq Waiting /\ Lists
  <2>1. CASE o \in Tables /\ BarrierBack(o, {m}) /\ UNCHANGED gray
    BY <1>1, <1>2, <2>1, Back DEF Kinds
  <2>2. CASE o \in Userdata /\ BarrierForward(marked, o, m) /\ UNCHANGED grayagain
    BY <1>1, <1>2, <2>2, Forward DEF Kinds, Operation
  <2>. QED BY <2>1, <2>2 DEF SetMetatable
<1>4. Kinds'
  BY <1>1, <1>2, <1>3 DEF Kinds, phaseVars
<1>5. Mutates
  BY <1>1, <1>2, <1>3 DEF Mutates, Operation, ScriptsRun, phaseVars, udataVars, sweepVars, Calls, Obj
<1>. QED BY <1>3, <1>4, <1>5, Mutation

LEMMA SetsEnv ==
  ASSUME IInv, NEW o \in Closures \cup Userdata \cup Threads, NEW t \in Tables, SetEnv(o, t)
  PROVE  IInv' /\ Frees
<1>1. /\ Operation /\ env' = [env EXCEPT ![o] = t] /\ BarrierForward(marked, o, t)
      /\ UNCHANGED <<running, grayagain, weak, sweepVars, phaseVars, meta, udataVars>>
  BY DEF SetEnv, threadVars, tableVars
<1>2. Kinds /\ Calls
  BY DEF IInv
<1>3. /\ marked' \in [Obj -> Colours]
      /\ \A x \in Obj : marked'[x] \in {marked[x], "gray", "black", currentwhite}
      /\ gray' \subseteq Waiting /\ Lists
  BY <1>1, Forward DEF Operation
<1>4. Kinds'
  BY <1>1, <1>2, <1>3 DEF Kinds, phaseVars
<1>5. Mutates
  BY <1>1, <1>2, <1>3 DEF Mutates, Operation, ScriptsRun, phaseVars, udataVars, sweepVars, Calls, Obj
<1>. QED BY <1>3, <1>4, <1>5, Mutation

LEMMA SetsUpVal ==
  ASSUME IInv, NEW c \in Closures, NEW v, SetUpVal(c, v)
  PROVE  IInv' /\ Frees
<1>1. /\ Operation /\ BarrierForward(marked, upval[c], v)
      /\ UNCHANGED <<running, grayagain, weak, sweepVars, phaseVars, meta, env, udataVars>>
  BY DEF SetUpVal, tableVars
<1>2. Kinds /\ Calls
  BY DEF IInv
<1>3. /\ marked' \in [Obj -> Colours]
      /\ \A x \in Obj : marked'[x] \in {marked[x], "gray", "black", currentwhite}
      /\ gray' \subseteq Waiting /\ Lists
  BY <1>1, Forward DEF Operation
<1>4. Kinds'
  BY <1>1, <1>2, <1>3 DEF Kinds, phaseVars
<1>5. Mutates
  BY <1>1, <1>2, <1>3 DEF Mutates, Operation, ScriptsRun, phaseVars, udataVars, sweepVars, Calls, Obj
<1>. QED BY <1>3, <1>4, <1>5, Mutation

LEMMA Closing ==
  ASSUME IInv, NEW S, S \subseteq UpVals, Close(S)
  PROVE  /\ marked' \in [Obj -> Colours]
         /\ \A x \in Obj \ UpVals : marked'[x] \in {marked[x], "gray", "black", currentwhite}
         /\ gray' \subseteq Waiting /\ sweepgc \subseteq sweepgc'
         /\ grayagain' = grayagain /\ weak' = weak /\ gcstate \notin atomicStates => Lists
<1>. DEFINE dead == {u \in S : IsDead(u)}
            grays == {u \in S : marked[u] = "gray"}
            M == IF gcstate = "propagate" THEN NewlyMarked({UpValue(u) : u \in grays}) ELSE {}
<1>1. /\ marked' = [o \in Obj |-> IF o \in dead THEN "free"
                                  ELSE IF o \in M THEN ColourOf(o)
                                  ELSE IF o \notin grays THEN marked[o]
                                  ELSE IF gcstate = "propagate" THEN "black"
                                  ELSE currentwhite]
      /\ gray' = gray \cup ToTraverse(M)
      /\ Link(S \ dead)
  BY DEF Close
<1>2. Kinds /\ M \subseteq {o \in Obj : IsWhite(o)}
  BY MarkedAreWhite DEF IInv
<1>3. dead \subseteq UpVals /\ grays \subseteq UpVals
  OBVIOUS
<1>. HIDE DEF dead, grays, M
<1>4. /\ \A o \in M : ColourOf(o) \in {"gray", "black"}
      /\ \A o \in M \cap Waiting : ColourOf(o) = "gray"
      /\ ToTraverse(M) = M \cap Waiting
  BY KindsAssumption DEF ColourOf, Waiting, ToTraverse
<1>5. marked' \in [Obj -> Colours]
  BY <1>1, <1>2, <1>4 DEF Kinds, Colours
<1>6. \A x \in Obj \ UpVals : marked'[x] \in {marked[x], "gray", "black", currentwhite}
  BY <1>1, <1>2, <1>3, <1>4
<1>7. gray' \subseteq Waiting /\ sweepgc \subseteq sweepgc'
  BY <1>1, <1>2, <1>4, Links DEF Kinds
<1>8. ASSUME grayagain' = grayagain, weak' = weak, gcstate \notin atomicStates PROVE Lists
  <2>. SUFFICES ASSUME gcstate = "propagate", closing = "no" PROVE Lists
    BY DEF Lists
  <2>1. \A o \in gray \cup grayagain \cup weak : o \in Obj \ M /\ o \notin UpVals /\ marked[o] = "gray"
    BY <1>2, NoneInList, TwoWhites, KindsAssumption DEF IsWhite, Kinds, Waiting
  <2>2. \A o \in gray \cup grayagain \cup weak : marked'[o] = "gray"
    BY <1>1, <1>3, <2>1
  <2>3. \A o \in gray' \ gray : IsWhite(o) /\ marked'[o] = "gray"
    BY <1>1, <1>2, <1>3, <1>4, KindsAssumption DEF Waiting
  <2>. QED BY <1>8, <2>2, <2>3 DEF Lists
<1>. QED BY <1>5, <1>6, <1>7, <1>8

LEMMA Returns ==
  ASSUME IInv, NEW l \in Level, Return(l)
  PROVE  IInv' /\ Frees
<1>1. /\ Operation /\ Close(OpenFrom(running, l))
      /\ UNCHANGED <<running, grayagain, weak, phaseVars, meta, env, udataVars>>
  BY DEF Return, tableVars
<1>2. Kinds /\ Calls
  BY DEF IInv
<1>3. /\ marked' \in [Obj -> Colours]
      /\ \A x \in Obj \ UpVals : marked'[x] \in {marked[x], "gray", "black", currentwhite}
      /\ gray' \subseteq Waiting /\ sweepgc \subseteq sweepgc' /\ Lists
  BY <1>1, Closing DEF OpenFrom, Operation, ScriptsRun
<1>4. Kinds'
  BY <1>1, <1>2, <1>3 DEF Kinds, phaseVars
<1>5. Mutates
  BY <1>1, <1>2, <1>3, KindsAssumption
     DEF Mutates, Operation, ScriptsRun, phaseVars, udataVars, Calls, Obj
<1>. QED BY <1>3, <1>4, <1>5, Mutation

--------------------------------------------------------------------------------
(* The state is closed: all userdata are separated.  What the lists hold   *)
(* matters no more.                                                        *)
LEMMA ClosesState ==
  ASSUME IInv, LuaClose
  PROVE  IInv' /\ Frees
<1>1. /\ Close(OpenFrom(mainthread, 0)) /\ separateudata(TRUE) /\ ScriptsRun
      /\ closing' = "finalizing" /\ running' = mainthread
      /\ UNCHANGED <<tableVars, env, grayagain, weak, currentwhite, gcstate>>
  BY DEF LuaClose, Operation
<1>2. Kinds /\ Calls
  BY DEF IInv
<1>3. /\ marked' \in [Obj -> Colours]
      /\ \A x \in Obj \ UpVals : marked'[x] \in {marked[x], "gray", "black", currentwhite}
      /\ gray' \subseteq Waiting
  BY <1>1, Closing DEF OpenFrom
<1>4. Kinds'
  BY <1>1, <1>2, <1>3, KindsAssumption DEF Kinds, tableVars
<1>5. \A u \in Userdata : Exists(u) => Exists(u)'
  BY <1>2, <1>3, KindsAssumption, TwoWhites DEF Exists, Obj, Kinds
<1>6. /\ called' = called /\ finalized' = finalized \cup Separated(TRUE)
      /\ tmudata' = tmudata \cup {u \in Separated(TRUE) : meta[u] \in HasGC}
      /\ \A u \in Separated(TRUE) : u \in Userdata \ finalized /\ Exists(u)
  BY <1>1 DEF separateudata, Separated, Linked
<1>7. Calls'
  BY <1>2, <1>5, <1>6 DEF Calls
<1>8. Separation' /\ OneList'
  BY <1>1 DEF Separation, OneList, Marks
<1>. QED BY <1>4, <1>5, <1>7, <1>8 DEF IInv, Frees

LEMMA FinalizesOne ==
  ASSUME IInv, NEW u \in tmudata, GCTM(u), gcstate \notin atomicStates,
         gcstate = "propagate" => closing # "no"
  PROVE  IInv' /\ Frees
<1>1. /\ tmudata' = tmudata \ {u} /\ marked' = [marked EXCEPT ![u] = currentwhite]
      /\ Link({u})
      /\ called' = called \/ called' = [called EXCEPT ![u] = @ + 1]
      /\ UNCHANGED <<tableVars, env, running, listVars, finalized, phaseVars>>
  BY DEF GCTM
<1>2. Kinds /\ Calls /\ u \in Userdata /\ u \in Obj
  BY DEF IInv, Calls, Obj
<1>3. /\ otherwhite # currentwhite /\ Whites = {currentwhite, otherwhite}
      /\ {currentwhite, otherwhite} \cap {"gray", "black", "free"} = {}
      /\ otherwhite' = otherwhite
  BY <1>1, <1>2, TwoWhites DEF Kinds, phaseVars, otherwhite
<1>4. Kinds'
  BY <1>1, <1>2 DEF Kinds, Colours, phaseVars, tableVars, listVars
<1>5. Calls'
  <2>1. u \in finalized /\ called[u] = 0
    BY <1>2 DEF Calls
  <2>2. called' \in [Userdata -> Nat]
    BY <1>1, <1>2 DEF Calls
  <2>3. \A x \in tmudata' : Exists(x)'
    BY <1>1, <1>2 DEF Calls, Exists, Kinds
  <2>4. \A x \in Userdata : called'[x] = 0 \/ (called'[x] = 1 /\ x \in finalized' \ tmudata')
    <3>. SUFFICES ASSUME NEW x \in Userdata
                  PROVE  called'[x] = 0 \/ (called'[x] = 1 /\ x \in finalized' \ tmudata')
      OBVIOUS
    <3>1. CASE x = u
      BY <1>1, <1>2, <2>1, <3>1 DEF Calls
    <3>2. CASE x # u
      BY <1>1, <1>2, <3>2 DEF Calls
    <3>. QED BY <3>1, <3>2
  <2>. QED BY <1>1, <1>2, <2>2, <2>3, <2>4 DEF Calls
<1>6. Separation'
  <2>. SUFFICES ASSUME closing' = "no", NEW x \in Userdata, IsDead(x)'
                PROVE  /\ gcstate' \in {"sweepstring", "sweep"}
                       /\ x \in sweepgc' /\ x \in finalized' \ tmudata'
    BY <1>1 DEF Separation, phaseVars, atomicStates
  <2>1. closing = "no" /\ IsDead(x) /\ x # u
    BY <1>1, <1>2, <1>3 DEF phaseVars, IsDead, Kinds, Obj
  <2>. QED BY <1>1, <2>1, Links DEF IInv, Separation, phaseVars
<1>7. OneList'
  BY <1>1 DEF OneList, Marks, phaseVars, atomicStates
<1>8. Frees
  <2>1. \A x \in Userdata : marked'[x] = IF x = u THEN currentwhite ELSE marked[x]
    BY <1>1, <1>2 DEF Kinds, Obj
  <2>. QED BY <1>3, <2>1 DEF Frees, Exists
<1>. QED BY <1>4, <1>5, <1>6, <1>7, <1>8 DEF IInv

LEMMA FreesAll ==
  ASSUME IInv, FreeAll
  PROVE  IInv' /\ Frees
<1>1. /\ closing' = "closed" /\ tmudata = {} /\ UNCHANGED udataVars
      /\ marked' = [o \in Obj |-> IF o = mainthread THEN marked[o] ELSE "free"]
      /\ UNCHANGED <<meta, env, running, listVars, currentwhite>>
  BY DEF FreeAll, tableVars, threadVars
<1>2. Kinds /\ Calls
  BY DEF IInv
<1>3. Kinds'
  BY <1>1, <1>2, KindsAssumption DEF Kinds, Colours, listVars
<1>4. Calls'
  BY <1>1, <1>2 DEF Calls, udataVars
<1>5. Separation' /\ OneList'
  BY <1>1 DEF Separation, OneList, Marks
<1>6. Frees
  BY DEF Frees, FreeAll
<1>. QED BY <1>3, <1>4, <1>5, <1>6 DEF IInv

--------------------------------------------------------------------------------
(* Steps of the collector that mark.  For userdata, these never make one   *)
(* white.                                                                  *)
LEMMA MarkingUserdata ==
  ASSUME IInv, Kinds', UNCHANGED <<udataVars, sweepgc, currentwhite, closing>>,
         gcstate' = "preserve" => gcstate = "preserve", gcstate \notin {"sweepstring", "sweep"},
         \A u \in Userdata : marked'[u] \in {marked[u], "gray", "black"}
  PROVE  Calls' /\ Separation' /\ Frees
<1>1. /\ Whites = {currentwhite, otherwhite} /\ otherwhite' = otherwhite
      /\ Whites \cap {"gray", "black", "free"} = {}
  BY TwoWhites DEF IInv, Kinds, otherwhite
<1>2. Calls'
  <2>1. \A u \in tmudata' : Exists(u)'
    BY DEF IInv, Calls, udataVars, Exists
  <2>. QED BY <2>1 DEF IInv, Calls, udataVars
<1>3. Separation'
  <2>. SUFFICES ASSUME closing = "no", NEW u \in Userdata
                PROVE  /\ ~IsDead(u)'
                       /\ IsWhite(u)' /\ gcstate' = "preserve" => u \in finalized' \ tmudata'
    BY DEF Separation
  <2>1. ~IsDead(u) /\ (IsWhite(u) /\ gcstate = "preserve" => u \in finalized \ tmudata)
    BY DEF IInv, Separation
  <2>. QED BY <1>1, <2>1 DEF IsDead, IsWhite, udataVars
<1>4. Frees
  BY DEF Frees, Exists
<1>. QED BY <1>2, <1>3, <1>4

(* For the lists, with colours to mark in them. *)
LEMMA MarksNew ==
  ASSUME IInv, NEW S, marked' = Marking(marked, NewlyMarked(S))
  PROVE  LET M == NewlyMarked(S)
         IN /\ marked' \in [Obj -> Colours]
            /\ \A o \in Obj : marked'[o] \in {marked[o], "gray", "black"}
            /\ \A o \in Obj : ~IsWhite(o) => o \notin M /\ marked'[o] = marked[o]
            /\ \A o \in ToTraverse(M) : marked'[o] = "gray" /\ IsWhite(o)
            /\ ToTraverse(M) \subseteq Waiting
<1>1. Kinds /\ NewlyMarked(S) \subseteq {o \in Obj : IsWhite(o)}
  BY MarkedAreWhite DEF IInv
<1>. HIDE DEF Kinds
<1>2. LET M == NewlyMarked(S)
      IN /\ marked' \in [Obj -> Colours]
         /\ \A o \in Obj \ M : marked'[o] = marked[o]
         /\ \A o \in M : marked'[o] \in {"gray", "black"}
         /\ \A o \in M \cap Waiting : marked'[o] = "gray"
         /\ ToTraverse(M) = M \cap Waiting
  BY <1>1, MarkingColours
<1>. QED BY <1>1, <1>2

LEMMA GrayIsNotWhite ==
  ASSUME IInv
  PROVE  /\ \A o : marked[o] \in {"gray", "black", "free"} => ~IsWhite(o)
         /\ Marks => \A o \in gray \cup grayagain \cup weak :
                       o \in Obj /\ o \in Waiting /\ marked[o] = "gray" /\ ~IsWhite(o)
BY WhitesAssumption DEF IInv, OneList, Kinds, Waiting, Obj, IsWhite

LEMMA MarksRoot ==
  ASSUME IInv, MarkRoot, closing = "no"
  PROVE  IInv' /\ Frees
<1>. DEFINE S == {mainthread, env[mainthread], registry, mt}
<1>1. /\ marked' = Marking(marked, NewlyMarked(S)) /\ gray' = ToTraverse(NewlyMarked(S))
      /\ grayagain' = {} /\ weak' = {} /\ gcstate' = "propagate"
      /\ gcstate \notin {"sweepstring", "sweep"}
      /\ UNCHANGED <<meta, env, running, sweepgc, udataVars, currentwhite, closing>>
  BY DEF MarkRoot, heapVars, tableVars, threadVars, sweepVars
<1>. HIDE DEF S
<1>2. /\ marked' \in [Obj -> Colours]
      /\ \A o \in Obj : marked'[o] \in {marked[o], "gray", "black"}
      /\ \A o \in gray' : marked'[o] = "gray"
      /\ gray' \subseteq Waiting
  BY <1>1, MarksNew
<1>3. Kinds'
  BY <1>1, <1>2 DEF IInv, Kinds
<1>4. Calls' /\ Separation' /\ Frees
  BY <1>1, <1>2, <1>3, MarkingUserdata DEF Obj
<1>5. OneList'
  BY <1>1, <1>2 DEF OneList
<1>. QED BY <1>3, <1>4, <1>5 DEF IInv

LEMMA PropagatesMark ==
  ASSUME IInv, NEW o \in gray, PropagateMark(o), closing = "no"
  PROVE  IInv' /\ Frees
<1>. DEFINE S == Traversed(o)
            M == NewlyMarked(S)
            staysGray == o \in Threads \/ (o \in Tables /\ (WeakKeys(o) \/ WeakValues(o)))
            colours == Marking(marked, M)
<1>1. /\ marked' = [colours EXCEPT ![o] = IF staysGray THEN "gray" ELSE "black"]
      /\ gray' = (gray \ {o}) \cup ToTraverse(M)
      /\ weak' = IF staysGray /\ o \in Tables THEN weak \cup {o} ELSE weak
      /\ grayagain' = IF o \in Threads THEN grayagain \cup {o} ELSE grayagain
      /\ gcstate \in {"propagate"} \cup atomicStates
      /\ UNCHANGED <<meta, env, running, sweepgc, udataVars, currentwhite, gcstate, closing>>
  BY DEF PropagateMark, threadVars, sweepVars, phaseVars
<1>2. o \in Threads => staysGray
  OBVIOUS
<1>. HIDE DEF S, staysGray
<1>3. Marks /\ Kinds /\ o \in Obj /\ o \in Waiting /\ OneList
  BY <1>1, GrayIsNotWhite DEF Marks, IInv
<1>4. /\ colours \in [Obj -> Colours]
      /\ \A x \in Obj : colours[x] \in {marked[x], "gray", "black"}
      /\ \A x \in Obj : ~IsWhite(x) => x \notin M /\ colours[x] = marked[x]
      /\ \A x \in ToTraverse(M) : colours[x] = "gray" /\ IsWhite(x) /\ x \in Waiting
  <2>1. M \subseteq {x \in Obj : IsWhite(x)}
    BY MarkedAreWhite
  <2>. HIDE DEF M
  <2>2. /\ colours \in [Obj -> Colours]
        /\ \A x \in Obj \ M : colours[x] = marked[x]
        /\ \A x \in M : colours[x] \in {"gray", "black"}
        /\ \A x \in M \cap Waiting : colours[x] = "gray"
        /\ ToTraverse(M) = M \cap Waiting
    BY <1>3, <2>1, MarkingColours
  <2>. QED BY <2>1, <2>2
<1>. HIDE DEF M, colours
<1>5. /\ marked' \in [Obj -> Colours]
      /\ \A x \in Obj : marked'[x] \in {marked[x], "gray", "black"}
      /\ \A x \in Obj \ {o} : marked'[x] = colours[x]
      /\ staysGray => marked'[o] = "gray"
  BY <1>1, <1>3, <1>4 DEF Colours
<1>6. Kinds'
  BY <1>1, <1>3, <1>4, <1>5 DEF Kinds
<1>7. Calls' /\ Separation' /\ Frees
  BY <1>1, <1>5, <1>6, MarkingUserdata DEF Obj, atomicStates
<1>8. OneList'
  <2>1. /\ gray \cap grayagain = {} /\ gray \cap weak = {} /\ grayagain \cap weak = {}
        /\ \A x \in gray \cup grayagain \cup weak : x \in Obj /\ marked[x] = "gray" /\ ~IsWhite(x)
    BY <1>3, GrayIsNotWhite DEF OneList
  <2>2. /\ \A x \in (gray \cup grayagain \cup weak) \ {o} : marked'[x] = "gray"
        /\ \A x \in ToTraverse(M) : x # o /\ x \notin grayagain \cup weak /\ x \in Obj
    BY <1>3, <1>4, <1>5, <2>1 DEF Waiting, Obj
  <2>3. \A x \in gray' \cup grayagain' \cup weak' : marked'[x] = "gray"
    BY <1>1, <1>2, <1>4, <1>5, <2>1, <2>2
  <2>4. gray' \cap grayagain' = {} /\ gray' \cap weak' = {} /\ grayagain' \cap weak' = {}
    BY <1>1, <2>1, <2>2, KindsAssumption
  <2>. QED BY <2>3, <2>4 DEF OneList
<1>. QED BY <1>6, <1>7, <1>8 DEF IInv

LEMMA BeginsAtomic ==
  ASSUME IInv, Atomic, closing = "no"
  PROVE  IInv' /\ Frees
<1>. DEFINE S == {UpValue(u) : u \in {w \in UpVals : IsOpen(w) /\ marked[w] = "gray"}}
<1>1. /\ marked' = Marking(marked, NewlyMarked(S)) /\ gray' = ToTraverse(NewlyMarked(S))
      /\ gcstate = "propagate" /\ gcstate' = "remark"
      /\ UNCHANGED <<meta, env, running, grayagain, weak, sweepgc, udataVars, currentwhite, closing>>
  BY DEF Atomic, Remarked, Step, heapVars, tableVars, threadVars
<1>. HIDE DEF S
<1>2. Kinds'
  BY <1>1, MarksNew DEF IInv, Kinds
<1>3. Calls' /\ Separation' /\ Frees
  BY <1>1, <1>2, MarksNew, MarkingUserdata DEF Obj
<1>4. OneList'
  BY <1>1, MarksNew, GrayIsNotWhite DEF OneList, IInv, Marks
<1>. QED BY <1>2, <1>3, <1>4 DEF IInv

LEMMA TraversesWeak ==
  ASSUME IInv, TraverseWeak, closing = "no"
  PROVE  IInv' /\ Frees
<1>. DEFINE S == {running, mt}
<1>1. /\ marked' = Marking(marked, NewlyMarked(S)) /\ gray' = weak \cup ToTraverse(NewlyMarked(S))
      /\ weak' = {} /\ gcstate = "remark" /\ gcstate' = "reweak"
      /\ UNCHANGED <<meta, env, running, grayagain, sweepgc, udataVars, currentwhite, closing>>
  BY DEF TraverseWeak, Step, heapVars, tableVars, threadVars
<1>. HIDE DEF S
<1>2. Kinds'
  BY <1>1, MarksNew DEF IInv, Kinds
<1>3. Calls' /\ Separation' /\ Frees
  BY <1>1, <1>2, MarksNew, MarkingUserdata DEF Obj
<1>4. OneList'
  BY <1>1, MarksNew, GrayIsNotWhite DEF OneList, IInv, Marks, atomicStates
<1>. QED BY <1>2, <1>3, <1>4 DEF IInv

LEMMA TraversesAgain ==
  ASSUME IInv, TraverseAgain, closing = "no"
  PROVE  IInv' /\ Frees
<1>1. /\ gray' = grayagain /\ grayagain' = {} /\ gcstate = "reweak" /\ gcstate' = "again"
      /\ UNCHANGED <<meta, env, running, marked, weak, sweepgc, udataVars, currentwhite, closing>>
  BY DEF TraverseAgain, Step, heapVars, tableVars, threadVars
<1>2. Kinds'
  BY <1>1 DEF IInv, Kinds
<1>3. Calls' /\ Separation' /\ Frees
  BY <1>1, <1>2, MarkingUserdata
<1>4. OneList'
  BY <1>1 DEF OneList, IInv, Marks, atomicStates
<1>. QED BY <1>2, <1>3, <1>4 DEF IInv

(* All white userdata are separated; those that wait are black.            *)
LEMMA Preserves ==
  ASSUME IInv, Preserve, closing = "no"
  PROVE  IInv' /\ Frees
<1>. DEFINE M == White(UNION {With(u) : u \in tmudata'})
<1>1. /\ gcstate = "again" /\ gcstate' = "preserve" /\ gray = {} /\ gray' = M
      /\ marked' = [o \in Obj |-> IF o \in tmudata' THEN "black"
                                  ELSE IF o \in M THEN "gray" ELSE marked[o]]
      /\ separateudata(FALSE)
      /\ UNCHANGED <<meta, env, running, grayagain, weak, sweepgc, currentwhite, closing>>
  BY DEF Preserve, Step, heapVars, tableVars, threadVars
<1>2. /\ called' = called /\ finalized' = finalized \cup Separated(FALSE)
      /\ tmudata' = tmudata \cup {u \in Separated(FALSE) : meta[u] \in HasGC}
      /\ \A u \in Separated(FALSE) : u \in Userdata /\ Exists(u) /\ u \notin finalized
      /\ \A u \in Userdata : Exists(u) /\ IsWhite(u) => u \in finalized' \cup tmudata
  BY <1>1, KindsAssumption DEF separateudata, Separated, Linked
<1>3. Kinds /\ Calls /\ OneList
  BY DEF IInv
<1>4. M \subseteq {o \in Obj : IsWhite(o)} /\ M \subseteq Waiting
  <2>1. \A u \in tmudata' : u \in Userdata
    BY <1>2, <1>3 DEF Calls
  <2>2. \A u \in Userdata : With(u) = {meta[u], env[u]}
    BY KindsAssumption DEF With
  <2>3. \A u \in Userdata : meta[u] \in Tables \cup {Nil} /\ env[u] \in Tables \cup {Nil}
    BY <1>3 DEF Kinds
  <2>4. UNION {With(u) : u \in tmudata'} \subseteq Tables \cup {Nil}
    BY <2>1, <2>2, <2>3
  <2>. QED BY <2>4, KindsAssumption DEF White, Waiting
<1>. HIDE DEF M
<1>5. Kinds'
  BY <1>1, <1>3, <1>4 DEF Kinds, Colours
<1>6. Calls'
  <2>1. \A u \in tmudata' : Exists(u)'
    BY <1>1, <1>2, <1>3, KindsAssumption DEF Calls, Exists, Obj
  <2>. QED BY <1>2, <1>3, <2>1 DEF Calls
<1>7. Separation'
  <2>. SUFFICES ASSUME NEW u \in Userdata
                PROVE  ~IsDead(u)' /\ (IsWhite(u)' => u \in finalized' \ tmudata')
    BY <1>1 DEF Separation
  <2>1. /\ Whites = {currentwhite, otherwhite} /\ otherwhite' = otherwhite
        /\ Whites \cap {"gray", "black", "free"} = {}
    BY <1>1, <1>3, TwoWhites DEF Kinds, otherwhite
  <2>2. ~IsDead(u)
    BY <1>1 DEF IInv, Separation
  <2>3. u \in Obj /\ marked'[u] \in {"black", "gray", marked[u]}
    BY <1>1 DEF Obj
  <2>4. ~IsDead(u)'
    BY <2>1, <2>2, <2>3 DEF IsDead
  <2>5. ASSUME IsWhite(u)' PROVE u \in finalized' \ tmudata'
    <3>1. IsWhite(u) /\ u \notin tmudata' /\ Exists(u)
      BY <1>1, <2>1, <2>3, <2>5 DEF IsWhite, Exists
    <3>. QED BY <1>2, <3>1
  <2>. QED BY <2>4, <2>5
<1>8. OneList'
  <2>1. \A o \in grayagain \cup weak : o \in Obj /\ marked[o] = "gray" /\ ~IsWhite(o) /\ o \notin Userdata
    BY <1>1, GrayIsNotWhite, KindsAssumption DEF Marks, atomicStates, Waiting
  <2>2. tmudata' \subseteq Userdata /\ \A o \in M : o \notin Userdata
    BY <1>2, <1>3, <1>4, KindsAssumption DEF Calls, Waiting
  <2>3. \A o \in gray' \cup grayagain' \cup weak' : marked'[o] = "gray"
    BY <1>1, <1>4, <2>1, <2>2
  <2>4. gray' \cap grayagain' = {} /\ gray' \cap weak' = {} /\ grayagain' \cap weak' = {}
    BY <1>1, <1>3, <1>4, <2>1 DEF OneList, Marks, atomicStates
  <2>. QED BY <2>3, <2>4 DEF OneList
<1>9. Frees
  BY <1>1 DEF Frees, Exists, Obj
<1>. QED BY <1>5, <1>6, <1>7, <1>8, <1>9 DEF IInv

(* What was white is dead, and was separated. *)
LEMMA EndsAtomic ==
  ASSUME IInv, AtomicEnd, closing = "no"
  PROVE  IInv' /\ Frees
<1>1. PICK S : marked' = Marking(marked, {s \in S : IsWhite(s)}) /\ S \subseteq Strings
  BY DEF AtomicEnd
<1>2. /\ gcstate = "preserve" /\ gcstate' = "sweepstring"
      /\ currentwhite' = otherwhite /\ sweepgc' = Root
      /\ UNCHANGED <<meta, env, running, listVars, udataVars, closing>>
  BY DEF AtomicEnd, threadVars
<1>3. Kinds /\ Calls
  BY DEF IInv
<1>4. {s \in S : IsWhite(s)} \subseteq {o \in Obj : IsWhite(o)} /\ S \cap Userdata = {}
  BY <1>1, KindsAssumption DEF Obj
<1>5. /\ marked' \in [Obj -> Colours]
      /\ \A o \in Userdata : marked'[o] = marked[o]
  <2>. DEFINE M == {s \in S : IsWhite(s)}
  <2>1. marked' = Marking(marked, M) /\ M \subseteq {o \in Obj : IsWhite(o)} /\ M \cap Userdata = {}
    BY <1>1, <1>4
  <2>. HIDE DEF M
  <2>2. marked' \in [Obj -> Colours] /\ \A o \in Obj \ M : marked'[o] = marked[o]
    BY <1>3, <2>1, MarkingColours
  <2>. QED BY <2>1, <2>2 DEF Obj
<1>6. /\ otherwhite \in Whites /\ otherwhite' = currentwhite
      /\ Whites \cap {"gray", "black", "free"} = {}
  BY <1>2, <1>3, TwoWhites DEF Kinds, otherwhite
<1>7. Kinds'
  BY <1>2, <1>3, <1>5, <1>6 DEF Kinds, listVars
<1>8. Calls'
  <2>1. \A u \in tmudata' : Exists(u)'
    BY <1>2, <1>3, <1>5 DEF Calls, Exists, udataVars
  <2>. QED BY <1>2, <1>3, <2>1 DEF Calls, udataVars
<1>9. Separation'
  <2>. SUFFICES ASSUME NEW u \in Userdata, IsDead(u)'
                PROVE  u \in sweepgc' /\ u \in finalized' \ tmudata'
    BY <1>2 DEF Separation
  <2>1. IsWhite(u) /\ Exists(u)
    BY <1>3, <1>5, <1>6 DEF IsDead, IsWhite, Exists, Kinds
  <2>2. u \in finalized \ tmudata
    BY <1>2, <2>1 DEF IInv, Separation
  <2>. QED BY <1>2, <2>1, <2>2, KindsAssumption DEF Root, Linked, Obj, udataVars
<1>10. OneList'
  BY <1>2 DEF OneList, Marks, atomicStates
<1>11. Frees
  BY <1>5 DEF Frees, Exists
<1>. QED BY <1>7, <1>8, <1>9, <1>10, <1>11 DEF IInv

--------------------------------------------------------------------------------
(* Sweeping.                                                               *)
LEMMA SweptColours ==
  ASSUME Kinds, NEW S
  PROVE  /\ Swept(S) \in [Obj -> Colours]
         /\ \A o \in Obj \ S : Swept(S)[o] = marked[o]
         /\ \A o \in S \cap Obj : /\ Swept(S)[o] \in {"free", currentwhite}
                                  /\ Swept(S)[o] = "free" => IsDead(o)
BY TwoWhites DEF Swept, IsGarbage, Kinds, Colours

LEMMA SweepsString ==
  ASSUME IInv, SweepString, closing = "no"
  PROVE  IInv' /\ Frees
<1>. DEFINE chain == {s \in Strings : Exists(s) /\ hash[s] = sweepstrgc}
<1>1. /\ marked' = Swept(chain) /\ chain \subseteq Strings
      /\ gcstate = "sweepstring" /\ gcstate' \in {"sweepstring", "sweep"}
      /\ UNCHANGED <<meta, env, running, listVars, sweepgc, udataVars, currentwhite, closing>>
  BY DEF SweepString, heapVars, tableVars, threadVars
<1>. HIDE DEF chain
<1>2. Kinds /\ Calls
  BY DEF IInv
<1>3. marked' \in [Obj -> Colours] /\ \A u \in Userdata : marked'[u] = marked[u]
  BY <1>1, <1>2, SweptColours, KindsAssumption DEF Obj
<1>4. Kinds'
  BY <1>1, <1>2, <1>3 DEF Kinds, listVars
<1>5. Calls'
  <2>1. \A u \in tmudata' : Exists(u)'
    BY <1>1, <1>2, <1>3 DEF Calls, Exists, udataVars
  <2>. QED BY <1>1, <1>2, <2>1 DEF Calls, udataVars
<1>6. Separation'
  <2>1. \A u \in Userdata : IsDead(u)' => IsDead(u)
    BY <1>1, <1>3 DEF IsDead, otherwhite
  <2>. QED BY <1>1, <2>1 DEF IInv, Separation, udataVars
<1>7. OneList'
  BY <1>1 DEF OneList, Marks, atomicStates
<1>8. Frees
  BY <1>3 DEF Frees, Exists
<1>. QED BY <1>4, <1>5, <1>6, <1>7, <1>8 DEF IInv

(* Only dead userdata are freed, and the dead ones that stay are to be     *)
(* swept.                                                                  *)
LEMMA SweepsStep ==
  ASSUME IInv, SweepStep, closing = "no"
  PROVE  IInv' /\ Frees
<1>1. PICK S : Sweep(S)
  BY DEF SweepStep
<1>2. PICK open \in SUBSET UpVals : /\ marked' = Swept(S \cup open)
                                    /\ sweepgc \ S \subseteq sweepgc'
  BY <1>1 DEF Sweep
<1>3. /\ gcstate = "sweep" /\ gcstate' = IF sweepgc' = {} THEN "finalize" ELSE "sweep"
      /\ UNCHANGED <<meta, env, running, listVars, udataVars, currentwhite, closing>>
  BY DEF SweepStep, tableVars, threadVars
<1>4. Kinds /\ Calls
  BY DEF IInv
<1>5. /\ marked' \in [Obj -> Colours]
      /\ \A u \in Userdata \ S : marked'[u] = marked[u]
      /\ \A u \in Userdata \cap S : /\ marked'[u] \in {"free", currentwhite}
                                    /\ marked'[u] = "free" => IsDead(u)
  BY <1>2, <1>4, SweptColours, KindsAssumption DEF Obj
<1>6. \A u \in Userdata : Exists(u) /\ ~Exists(u)' => IsDead(u)
  BY <1>5 DEF Exists
<1>7. \A u \in Userdata : IsDead(u)' => IsDead(u) /\ u \notin S
  <2>1. otherwhite' = otherwhite /\ otherwhite # currentwhite /\ otherwhite # "free"
    BY <1>3, <1>4, TwoWhites DEF otherwhite, Kinds
  <2>. SUFFICES ASSUME NEW u \in Userdata, IsDead(u)' PROVE IsDead(u) /\ u \notin S
    OBVIOUS
  <2>2. marked'[u] = otherwhite
    BY <2>1 DEF IsDead
  <2>3. u \notin S
    BY <1>5, <2>1, <2>2
  <2>. QED BY <1>5, <2>2, <2>3 DEF IsDead
<1>8. Kinds'
  BY <1>3, <1>4, <1>5 DEF Kinds, listVars
<1>9. Calls'
  <2>1. \A u \in tmudata : ~IsDead(u) /\ u \in Userdata
    BY <1>4 DEF IInv, Separation, Calls
  <2>2. \A u \in tmudata' : Exists(u)'
    BY <1>3, <1>4, <1>6, <2>1 DEF Calls, udataVars
  <2>. QED BY <1>3, <1>4, <2>2 DEF Calls, udataVars
<1>10. Separation'
  BY <1>2, <1>3, <1>7 DEF IInv, Separation, udataVars
<1>11. OneList'
  BY <1>3 DEF OneList, Marks, atomicStates
<1>. QED BY <1>6, <1>8, <1>9, <1>10, <1>11 DEF IInv, Frees

LEMMA EndsCycle ==
  ASSUME IInv, EndCycle
  PROVE  IInv' /\ Frees
<1>1. /\ gcstate = "finalize" /\ gcstate' = "pause"
      /\ UNCHANGED <<meta, env, running, marked, listVars, sweepgc, udataVars, currentwhite, closing>>
  BY DEF EndCycle, heapVars, tableVars, threadVars, sweepVars
<1>2. Kinds' /\ Calls'
  BY <1>1 DEF IInv, Kinds, Calls, listVars, udataVars, Exists
<1>3. Separation' /\ OneList'
  BY <1>1 DEF IInv, Separation, OneList, Marks, atomicStates, IsDead, otherwhite, udataVars
<1>4. Frees
  BY <1>1 DEF Frees, Exists
<1>. QED BY <1>2, <1>3, <1>4 DEF IInv

LEMMA FullCollection ==
  ASSUME IInv, FullGC
  PROVE  IInv' /\ Frees
<1>1. /\ gcstate \notin atomicStates
      /\ UNCHANGED <<meta, env, running, marked, udataVars, currentwhite, closing>>
      /\ \/ /\ gcstate \in {"pause", "propagate"} /\ gcstate' = "sweepstring"
            /\ gray' = {} /\ grayagain' = {} /\ weak' = {}
         \/ gcstate \notin {"pause", "propagate"} /\ UNCHANGED <<gcstate, sweepgc, listVars>>
  BY DEF FullGC, Operation, ScriptsRun, heapVars, tableVars, threadVars, sweepVars
<1>2. Kinds' /\ Calls'
  BY <1>1 DEF IInv, Kinds, Calls, listVars, udataVars, Exists
<1>3. Separation'
  <2>1. otherwhite' = otherwhite
    BY <1>1 DEF otherwhite
  <2>. QED BY <1>1, <2>1 DEF IInv, Separation, atomicStates, IsDead, IsWhite, udataVars
<1>4. OneList'
  BY <1>1 DEF OneList, Marks, atomicStates
<1>5. Frees
  BY <1>1 DEF Frees, Exists
<1>. QED BY <1>2, <1>3, <1>4, <1>5 DEF IInv

--------------------------------------------------------------------------------
LEMMA InitIInv == Init => IInv
<1>. SUFFICES ASSUME Init PROVE IInv
  OBVIOUS
<1>1. PICK h \in Heaps : /\ marked = [o \in Obj |-> IF o \in h.exists THEN currentwhite ELSE "free"]
                         /\ meta = h.meta /\ env = h.env
  BY DEF Init
<1>2. Kinds
  <2>1. /\ h.meta \in [Tables \cup Userdata -> (Tables \cap h.exists) \cup {Nil}]
        /\ h.env \in [Closures \cup Userdata \cup Threads -> (Tables \cap h.exists) \cup {Nil}]
    BY <1>1, HeapsAssumption
  <2>2. /\ meta \in [Tables \cup Userdata -> Tables \cup {Nil}]
        /\ env \in [Closures \cup Userdata \cup Threads -> Tables \cup {Nil}]
    BY <1>1, <2>1
  <2>. QED BY <1>1, <2>2, KindsAssumption DEF Init, Kinds, Colours
<1>3. Calls
  BY DEF Init, Calls
<1>4. Separation
  BY <1>1, <1>2, TwoWhites DEF Init, Separation, IsDead, Kinds, Obj
<1>5. OneList
  BY DEF Init, OneList, Marks, atomicStates
<1>. QED BY <1>2, <1>3, <1>4, <1>5 DEF IInv

LEMMA StepOfCollector ==
  ASSUME IInv, Collector PROVE IInv' /\ Frees
<1>1. CASE closing = "no" /\ MarkRoot
  BY <1>1, MarksRoot
<1>2. CASE closing = "no" /\ \E o \in gray : PropagateMark(o)
  BY <1>2, PropagatesMark
<1>3. CASE closing = "no" /\ (Atomic \/ TraverseWeak \/ TraverseAgain)
  BY <1>3, BeginsAtomic, TraversesWeak, TraversesAgain
<1>4. CASE closing = "no" /\ (Preserve \/ AtomicEnd)
  BY <1>4, Preserves, EndsAtomic
<1>5. CASE closing = "no" /\ (SweepString \/ SweepStep)
  BY <1>5, SweepsString, SweepsStep
<1>6. CASE closing = "no" /\ Finalize
  BY <1>6, FinalizesOne DEF Finalize, atomicStates
<1>7. CASE closing = "no" /\ EndCycle
  BY <1>7, EndsCycle
<1>. QED BY <1>1, <1>2, <1>3, <1>4, <1>5, <1>6, <1>7 DEF Collector, Collect

LEMMA StepOfScript ==
  ASSUME IInv, Script PROVE IInv' /\ Frees
<1>1. ASSUME NEW l \in Level, Create(l) PROVE IInv' /\ Frees
  BY <1>1, CreateNewTable, CreateNewUserdata, CreateNewThread, CreateString, CreateMethod,
     LoadFile, CreateClosure DEF Create, Operate
<1>2. ASSUME NEW l \in Level, Return(l) \/ \E v \in Loadable : Move(l, v) PROVE IInv' /\ Frees
  BY <1>2, Returns, Moves
<1>3. CASE Change
  BY <1>3, SetsTable, SetsMetatable, SetsStringMetatable, SetsEnv, SetsUpVal, Switches
     DEF Change, Operate
<1>. QED BY <1>1, <1>2, <1>3 DEF Script, Operate

LEMMA StepIInv == IInv /\ [Next]_vars => IInv' /\ Frees
<1>. SUFFICES ASSUME IInv, [Next]_vars PROVE IInv' /\ Frees
  OBVIOUS
<1>1. CASE FullGC \/ LuaClose \/ FreeAll
  BY <1>1, FullCollection, ClosesState, FreesAll
<1>2. CASE CallGCTM
  BY <1>2, FinalizesOne DEF CallGCTM, ScriptsRun
<1>3. CASE UNCHANGED vars
  BY <1>3 DEF vars, heapVars, tableVars, threadVars, listVars, sweepVars, udataVars, phaseVars,
     IInv, Kinds, Calls, Separation, OneList, Marks, Exists, IsDead, IsWhite, otherwhite, Frees
<1>. QED BY <1>1, <1>2, <1>3, StepOfCollector, StepOfScript DEF Next, Operate

THEOREM Invariance == Spec => []IInv
<1>. QED BY InitIInv, StepIInv, PTL DEF Spec

(* GCTM never runs the finalizer of a userdata twice, for every heap and   *)
(* every number of operations of scripts.                                  *)
THEOREM Once == Spec => []FinalizedOnce
<1>1. IInv => FinalizedOnce
  BY DEF IInv, Calls, FinalizedOnce
<1>. QED BY <1>1, Invariance, PTL

(* The field gclist of an object is used by one list at a time.            *)
THEOREM Disjoint == Spec => []OneList
<1>1. IInv => OneList
  BY DEF IInv
<1>. QED BY <1>1, Invariance, PTL

(* A userdata is not freed before it was separated and, if it has a        *)
(* finalizer, handed to it.                                                *)
THEOREM FinalizedBeforeFreed == Spec => FinalizedFirst
<1>. DEFINE Follows == \A u \in Userdata : (Exists(u) /\ ~Exists(u)' /\ closing = "no")
                                           => u \in finalized \ tmudata
<1>1. IInv /\ [Next]_vars => Follows
  BY StepIInv DEF Frees, IInv, Separation
<1>2. IInv /\ [Next]_vars => [Follows]_vars
  BY <1>1
<1>. QED BY <1>2, Invariance, PTL DEF Spec, FinalizedFirst

--------------------------------------------------------------------------------
(* The rest of the types.  The key of an entry is a value. *)
Fields ==
  /\ key \in [Tables -> [Node -> Value \cup {DeadKey}]] /\ val \in [Tables -> [Node -> Value]]
  /\ \A t \in Tables, n \in Node : Entry(t, n) => key[t][n] \in Value
  /\ proto \in [Closures -> Protos \cup {Nil}] /\ upval \in [Closures -> UpVals \cup {Nil}]
  /\ k \in [Protos -> Strings \cup {Nil}] /\ inner \in [Protos -> Protos \cup {Nil}]
  /\ stack \in [Threads -> [Level -> Value]]
  /\ callee \in [Threads -> Threads \cup {Nil}]
  /\ place \in [UpVals -> (Threads \X Level) \cup {Closed}] /\ value \in [UpVals -> Value]
  /\ mt \in Tables \cup {Nil}
  /\ gcstate \in {"pause", "propagate", "sweepstring", "sweep", "finalize"} \cup atomicStates
  /\ closing \in {"no", "finalizing", "closed"}
  /\ grayagain \subseteq Tables \cup Threads /\ weak \subseteq Tables
  /\ sweepstrgc \in Nat /\ sweepgc \subseteq Obj \ Strings

(* Userdata do not wait in a list, threads always do; an upvalue is gray   *)
(* or white, and its thread is there, until it is closed.                  *)
Colouring ==
  /\ \A u \in Userdata : marked[u] # "gray"
  /\ \A th \in Threads : ~IsBlack(th)
  /\ \A u \in UpVals : IF IsOpen(u) THEN Exists(u) /\ ~IsBlack(u) /\ Exists(place[u][1])
                                    ELSE marked[u] # "gray"

(* A thread that resumed another is there, and the running thread and all  *)
(* that wait for it are found from the main thread.                        *)
Callers == closing # "closed" => \A th \in Threads : callee[th] # Nil => Alive(th)
Follow(S) == mainthread \in S /\ \A th \in S : callee[th] # Nil => callee[th] \in S
Chain ==
  closing = "no" =>
    /\ callee[running] = Nil
    /\ \A S \in SUBSET Threads :
         Follow(S) => running \in S /\ \A th \in Threads : callee[th] # Nil => th \in S

(* Between two cycles every object is white, and in a sweep every other    *)
(* one is still to be swept.                                               *)
Quiet ==
  closing = "no" /\ gcstate \in {"pause", "finalize"} =>
    \A o \in Obj : Exists(o) /\ o \notin tmudata => marked[o] = currentwhite
ToSweep(o) == IF o \in Strings THEN gcstate = "sweepstring" /\ hash[o] >= sweepstrgc
              ELSE IF o \in UpVals /\ IsOpen(o) THEN place[o][1] \in sweepgc
              ELSE o \in sweepgc
Sweeping ==
  closing = "no" /\ gcstate \in {"sweepstring", "sweep"} =>
    \A o \in Obj : Exists(o) /\ o \notin tmudata /\ marked[o] # currentwhite => ToSweep(o)
SweepList ==
  closing = "no" => \A o \in sweepgc : Exists(o) /\ (o \in UpVals => ~IsOpen(o))

(* The three colours: what a black object refers to is not white, save     *)
(* userdata of an earlier cycle that wait for their finalizers.            *)
Shaded(S) == \A o \in S \cap Obj : ~IsWhite(o)
Marked ==
  Marks =>
    /\ \A o \in Obj : ~IsDead(o)
    /\ \A o \in Obj \ tmudata : IsBlack(o) => Shaded(Refs(o))
    /\ \A o \in Waiting : marked[o] = "gray" => o \in gray \cup grayagain \cup weak
    /\ Shaded({mainthread, registry})

(* What the steps of atomic add. *)
Finishing ==
  closing = "no" =>
    /\ gcstate \in atomicStates =>
         \A u \in UpVals : marked[u] = "gray" => Shaded(With(u))
    /\ gcstate \in {"reweak", "again", "preserve"} =>
         Shaded({running, mt}) /\ \A o \in weak : Shaded(Traversed(o))
    /\ gcstate \in {"again", "preserve"} =>
         grayagain \subseteq Threads /\ \A o \in grayagain : Shaded(Refs(o))
    /\ gcstate = "preserve" => Shaded(tmudata) /\ \A o \in tmudata : Shaded(With(o))

HeldInv ==
  /\ Fields /\ Colouring /\ HoldsAlive /\ Callers /\ Chain
  /\ Quiet /\ Sweeping /\ SweepList /\ Marked /\ Finishing

--------------------------------------------------------------------------------
(* References.                                                             *)
RefersTo(o, r) ==
  \/ o \in Tables /\ (r = meta[o] \/ \E n \in Node : r = val[o][n] \/ (Entry(o, n) /\ r = key[o][n]))
  \/ o \in Closures /\ r \in {env[o], proto[o], upval[o]}
  \/ o \in Protos /\ r \in {k[o], inner[o]}
  \/ o \in Threads /\ (r \in {env[o], callee[o]} \/ \E l \in Level : r = stack[o][l])
  \/ o \in Userdata /\ r \in {meta[o], env[o]}
  \/ o \in UpVals /\ r = UpValue(o)

LEMMA Distinct ==
  /\ \A o \in Tables : o \notin Closures \cup Protos \cup Threads \cup Userdata \cup UpVals \cup Strings
  /\ \A o \in Closures : o \notin Tables \cup Protos \cup Threads \cup Userdata \cup UpVals \cup Strings
  /\ \A o \in Protos : o \notin Closures \cup Tables \cup Threads \cup Userdata \cup UpVals \cup Strings
  /\ \A o \in Threads : o \notin Closures \cup Protos \cup Tables \cup Userdata \cup UpVals \cup Strings
  /\ \A o \in Userdata : o \notin Closures \cup Protos \cup Threads \cup Tables \cup UpVals \cup Strings
  /\ \A o \in UpVals : o \notin Closures \cup Protos \cup Threads \cup Userdata \cup Tables \cup Strings
  /\ {Nil, Number, DeadKey} \cap Obj = {}
BY KindsAssumption, TraversedAssumption

LEMMA RefsOf == \A o \in Obj : \A r : r \in Refs(o) <=> RefersTo(o, r)
<1>. SUFFICES ASSUME NEW o \in Obj, NEW r PROVE r \in Refs(o) <=> RefersTo(o, r)
  OBVIOUS
<1>1. CASE o \in Tables
  BY <1>1, Distinct DEF Refs, RefersTo
<1>2. CASE o \in Closures
  BY <1>2, Distinct DEF Refs, RefersTo, Traversed
<1>3. CASE o \in Protos
  BY <1>3, Distinct DEF Refs, RefersTo, Traversed
<1>4. CASE o \in Threads
  BY <1>4, Distinct DEF Refs, RefersTo, Traversed
<1>5. CASE o \in Userdata \cup UpVals \cup Strings
  BY <1>5, Distinct DEF Refs, RefersTo, With
<1>. QED BY <1>1, <1>2, <1>3, <1>4, <1>5 DEF Obj

LEMMA RefsNext == (\A o \in Obj : \A r : r \in Refs(o) <=> RefersTo(o, r))'
BY RefsOf, PTL

(* The objects of C gain references to N. *)
Gain(C, N) == \A o \in Obj : \A r : r \in Refs(o)' => r \in Refs(o) \/ (o \in C /\ r \in N)

LEMMA Gains ==
  ASSUME NEW C, NEW N,
         \A o \in Tables \cup Userdata : meta'[o] = meta[o] \/ (o \in C /\ meta'[o] \in N),
         \A o \in Closures \cup Userdata \cup Threads : env'[o] = env[o] \/ (o \in C /\ env'[o] \in N),
         \A t \in Tables, n \in Node : val'[t][n] = val[t][n] \/ (t \in C /\ val'[t][n] \in N),
         \A t \in Tables, n \in Node :
            val'[t][n] # Nil => \/ val[t][n] # Nil /\ key'[t][n] = key[t][n]
                                \/ t \in C /\ key'[t][n] \in N,
         \A c \in Closures : /\ proto'[c] = proto[c] \/ (c \in C /\ proto'[c] \in N)
                             /\ upval'[c] = upval[c] \/ (c \in C /\ upval'[c] \in N),
         \A p \in Protos : /\ k'[p] = k[p] \/ (p \in C /\ k'[p] \in N)
                           /\ inner'[p] = inner[p] \/ (p \in C /\ inner'[p] \in N),
         \A th \in Threads : callee'[th] = callee[th] \/ (th \in C /\ callee'[th] \in N),
         \A th \in Threads, l \in Level :
            stack'[th][l] = stack[th][l] \/ (th \in C /\ stack'[th][l] \in N),
         \A u \in UpVals : UpValue(u)' = UpValue(u) \/ (u \in C /\ UpValue(u)' \in N)
  PROVE  Gain(C, N)
<1>. SUFFICES ASSUME NEW o \in Obj, NEW r, RefersTo(o, r)'
              PROVE  RefersTo(o, r) \/ (o \in C /\ r \in N)
  BY RefsOf, RefsNext DEF Gain
<1>1. CASE o \in Tables
  BY <1>1, Distinct DEF RefersTo, Entry
<1>2. CASE o \in Closures
  BY <1>2, Distinct DEF RefersTo
<1>3. CASE o \in Protos
  BY <1>3, Distinct DEF RefersTo
<1>4. CASE o \in Threads
  BY <1>4, Distinct DEF RefersTo
<1>5. CASE o \in Userdata
  BY <1>5, Distinct DEF RefersTo
<1>6. CASE o \in UpVals
  BY <1>6, Distinct DEF RefersTo
<1>. QED BY <1>1, <1>2, <1>3, <1>4, <1>5, <1>6 DEF RefersTo

LEMMA LiveOnes ==
  ASSUME Kinds
  PROVE  /\ \A o \in Obj : Alive(o) <=> marked[o] # "free" /\ (marked[o] # otherwhite \/ o \in Fixed \cup {mainthread})
         /\ \A o \in Obj : IsWhite(o) <=> marked[o] \in {currentwhite, otherwhite}
         /\ otherwhite # currentwhite
         /\ {otherwhite, currentwhite} \cap {"gray", "black", "free"} = {}
         /\ \A u \in UpVals : u \notin Fixed \cup {mainthread}
         /\ \A o \in Obj : marked[o] \in {currentwhite, otherwhite, "gray", "black", "free"}
BY TwoWhites, Distinct, TraversedAssumption, KindsAssumption
   DEF Alive, IsGarbage, IsDead, Exists, IsWhite, Kinds, Colours

--------------------------------------------------------------------------------
(* What the operations of scripts have in common: colours...               *)
Recolours ==
  /\ closing # "closed" /\ gcstate \notin atomicStates
  /\ UNCHANGED <<currentwhite, gcstate, closing, tmudata, sweepstrgc>>
  /\ sweepgc \subseteq sweepgc'
  /\ \A o \in Obj : \/ marked'[o] \in {marked[o], "gray", "black", currentwhite}
                    \/ marked'[o] = "free" /\ IsDead(o) /\ o \in UpVals
  /\ gcstate # "propagate" =>
       \A o \in Obj : marked'[o] \notin {"free", currentwhite}
                        => /\ marked[o] \notin {"free", currentwhite}
                           /\ o \in UpVals => place'[o] = place[o]

(* ... the barriers... *)
Barriers(C) ==
  Marks =>
    /\ \A o \in Obj : Exists(o) /\ ~IsWhite(o) => marked'[o] \in {"gray", "black"}
    /\ \A o \in Obj \ tmudata :
         marked'[o] = "black" /\ (o \in C \/ ~IsBlack(o)) => Shaded(Refs(o))'
    /\ \A o \in Waiting : marked'[o] = "gray" => marked[o] = "gray" \/ o \in gray' \cup grayagain'
    /\ gray \subseteq gray' /\ grayagain \subseteq grayagain' /\ weak' = weak

(* ... and what they refer to: the objects of B are new or found again.    *)
Finds(C, N, B) ==
  /\ Gain(C, N)
  /\ \A r \in N \cap Obj : Alive(r)'
  /\ \A o \in Obj : Alive(o)' => Alive(o) \/ o \in B
  /\ \A o \in B \cap Obj : Refs(o)' \cap Obj \subseteq N
  /\ \A x \in (Roots \cup {running})' \cap Obj : x \in Roots \cup {running} \cup N
  /\ \A th \in Threads : callee'[th] # Nil => callee'[th] = callee[th] \/ th = running

LEMMA StaysAlive ==
  ASSUME Kinds, Kinds', Recolours
  PROVE  \A o \in Obj : Alive(o) => Alive(o)'
<1>1. otherwhite' = otherwhite
  BY DEF Recolours, otherwhite
<1>2. \A o \in Obj : Alive(o)' <=> marked'[o] # "free" /\ (marked'[o] # otherwhite \/ o \in Fixed \cup {mainthread})
  BY <1>1, Distinct, TraversedAssumption, KindsAssumption, TwoWhites
     DEF Alive, IsGarbage, IsDead, Exists, Kinds
<1>. QED BY <1>2, LiveOnes DEF Recolours, IsDead

LEMMA Operates ==
  ASSUME HeldInv, IInv, Kinds', NEW C, NEW N, NEW B,
         Recolours, Barriers(C), Finds(C, N, B),
         Fields', Colouring', SweepList', Chain'
  PROVE  HeldInv'
<1>1. Kinds /\ HoldsAlive /\ Callers /\ closing # "closed" /\ running \in Obj
  BY DEF HeldInv, IInv, Recolours, Kinds, Obj
<1>2. \A o \in Obj : Alive(o) => Alive(o)'
  BY <1>1, StaysAlive
<1>3. HoldsAlive'
  <2>1. ASSUME NEW o \in (Roots \cup {running} \cup tmudata)', o # Nil PROVE Alive(o)'
    <3>1. o \in Obj
      BY <2>1, KindsAssumption, TraversedAssumption DEF Roots, Obj, HeldInv, Fields, Kinds, IInv, Calls, Recolours
    <3>2. CASE o \in tmudata
      BY <1>1, <1>2, <3>1, <3>2, <2>1 DEF HoldsAlive
    <3>3. CASE o \in (Roots \cup {running})'
      <4>1. o \in Roots \cup {running} \cup N
        BY <3>1, <3>3 DEF Finds
      <4>. QED BY <1>1, <1>2, <2>1, <3>1, <4>1 DEF HoldsAlive, Finds
    <3>. QED BY <2>1, <3>2, <3>3 DEF Recolours
  <2>2. ASSUME NEW o \in Obj, Alive(o)', NEW r \in Refs(o)' \cap Obj PROVE Alive(r)'
    <3>1. CASE Alive(o)
      BY <1>1, <1>2, <2>2, <3>1 DEF HoldsAlive, Finds, Gain
    <3>2. CASE o \in B
      BY <2>2, <3>2 DEF Finds
    <3>. QED BY <2>2, <3>1, <3>2 DEF Finds
  <2>. QED BY <2>1, <2>2 DEF HoldsAlive
<1>4. Callers'
  BY <1>1, <1>2, Distinct DEF Callers, HoldsAlive, Finds, Obj
<1>5. Quiet' /\ Sweeping'
  <2>1. ASSUME NEW o \in Obj, closing = "no", gcstate # "propagate", marked'[o] \notin {"free", currentwhite}, o \notin tmudata
        PROVE  /\ gcstate \notin {"pause", "finalize"}
               /\ gcstate \in {"sweepstring", "sweep"} => ToSweep(o)'
    <3>1. /\ marked[o] \notin {"free", currentwhite}
          /\ o \in UpVals => place'[o] = place[o]
      BY <2>1 DEF Recolours
    <3>2. gcstate \in {"sweepstring", "sweep"} => ToSweep(o)
      BY <2>1, <3>1 DEF HeldInv, Sweeping, Exists
    <3>3. gcstate \notin {"pause", "finalize"}
      BY <2>1, <3>1 DEF HeldInv, Quiet, Exists
    <3>. QED BY <3>1, <3>2, <3>3 DEF ToSweep, IsOpen, Recolours
  <2>. QED BY <2>1 DEF Quiet, Sweeping, Recolours, Exists
<1>6. Marked'
  <2>. SUFFICES ASSUME closing = "no", gcstate = "propagate" PROVE Marked'
    BY DEF Marked, Marks, Recolours
  <2>1. /\ \A o \in Obj : ~IsDead(o)
        /\ \A o \in Obj \ tmudata : IsBlack(o) => Shaded(Refs(o))
        /\ \A o \in Waiting : marked[o] = "gray" => o \in gray \cup grayagain \cup weak
        /\ Shaded({mainthread, registry})
    BY DEF HeldInv, Marked, Marks
  <2>2. /\ otherwhite' = otherwhite
        /\ \A o \in Obj : IsWhite(o)' => marked'[o] \notin {"gray", "black"}
    BY WhitesAssumption DEF otherwhite, Recolours, IsWhite
  <2>3. \A o \in Obj : ~IsDead(o)'
    BY <1>1, <2>1, <2>2, LiveOnes DEF IsDead, Recolours
  <2>4. \A o \in Obj : Alive(o) /\ ~IsWhite(o) => ~IsWhite(o)'
    BY <2>2 DEF Barriers, Alive, Marks
  <2>5. ASSUME NEW o \in Obj \ tmudata, IsBlack(o)' PROVE Shaded(Refs(o))'
    <3>1. CASE o \in C \/ ~IsBlack(o)
      BY <2>5, <3>1 DEF Barriers, IsBlack, Marks
    <3>2. CASE o \notin C /\ IsBlack(o)
      <4>1. Alive(o) /\ Shaded(Refs(o))
        BY <1>1, <2>1, <3>2, LiveOnes DEF IsBlack
      <4>2. \A r \in Refs(o) \cap Obj : ~IsWhite(r)'
        BY <1>1, <2>4, <4>1 DEF HoldsAlive, Shaded
      <4>3. Refs(o)' \subseteq Refs(o)
        BY <3>2 DEF Finds, Gain
      <4>. QED BY <4>2, <4>3 DEF Shaded
    <3>. QED BY <3>1, <3>2
  <2>6. Shaded({mainthread, registry})'
    <3>1. Alive(mainthread) /\ Alive(registry) /\ mainthread \in Obj /\ registry \in Obj
      BY <1>1, Distinct, KindsAssumption, TraversedAssumption DEF HoldsAlive, Roots, Obj
    <3>. QED BY <2>1, <2>4, <3>1 DEF Shaded
  <2>7. \A o \in Waiting : marked'[o] = "gray" => o \in (gray \cup grayagain \cup weak)'
    BY <2>1 DEF Barriers, Marks
  <2>. QED BY <2>3, <2>5, <2>6, <2>7 DEF Marked, Recolours
<1>7. Finishing'
  BY DEF Finishing, Recolours, atomicStates
<1>. QED BY <1>3, <1>4, <1>5, <1>6, <1>7 DEF HeldInv

--------------------------------------------------------------------------------
(* What a script can load is alive.                                        *)
LEMMA OnStackAlive ==
  ASSUME HeldInv, IInv, closing # "closed"
  PROVE  /\ running \in Threads /\ Alive(running) /\ env[running] \in Value
         /\ \A v \in OnStack : v \in Value /\ (v \in Obj => Alive(v))
         /\ env[running] \in Obj => Alive(env[running])
<1>1. running \in Threads /\ running \in Obj /\ Kinds /\ Fields /\ HoldsAlive
  BY DEF IInv, HeldInv, Kinds, Obj
<1>2. Alive(running)
  BY <1>1, Distinct DEF HoldsAlive
<1>3. \A r \in Obj : RefersTo(running, r) => Alive(r)
  BY <1>1, <1>2, RefsOf DEF HoldsAlive
<1>4. env[running] \in Value
  BY <1>1 DEF Kinds, Value, Object
<1>5. \A v \in OnStack : v \in Value /\ (v \in Obj => Alive(v))
  BY <1>1, <1>3 DEF OnStack, RefersTo, Fields
<1>. QED BY <1>1, <1>2, <1>3, <1>4, <1>5 DEF RefersTo

LEMMA LoadableAlive ==
  ASSUME HeldInv, IInv, closing # "closed"
  PROVE  \A v \in Loadable : v \in Value /\ (v \in Obj => Alive(v))
<1>1. Kinds /\ Fields /\ HoldsAlive
  BY DEF IInv, HeldInv
<1>2. \A o \in Obj, r \in Obj : Alive(o) /\ RefersTo(o, r) => Alive(r)
  BY <1>1, RefsOf DEF HoldsAlive
<1>3. \A o \in OnStack \cup {env[running]} : o \in Value /\ (o \in Obj => Alive(o))
  BY OnStackAlive
<1>4. ASSUME NEW t \in (OnStack \cup {env[running]}) \cap Tables, NEW n \in Node, Entry(t, n)
      PROVE  /\ val[t][n] \in Value /\ (val[t][n] \in Obj => Alive(val[t][n]))
             /\ key[t][n] \in Value /\ (key[t][n] \in Obj => Alive(key[t][n]))
  <2>1. t \in Obj /\ Alive(t)
    BY <1>3 DEF Obj
  <2>. QED BY <1>1, <1>2, <1>4, <2>1 DEF Fields, RefersTo
<1>5. ASSUME NEW c \in OnStack \cap Closures, upval[c] # Nil
      PROVE  UpValue(upval[c]) \in Value /\ (UpValue(upval[c]) \in Obj => Alive(UpValue(upval[c])))
  <2>1. c \in Obj /\ Alive(c) /\ upval[c] \in UpVals
    BY <1>1, <1>3, <1>5 DEF Obj, Fields
  <2>2. upval[c] \in Obj /\ Alive(upval[c])
    BY <1>2, <2>1 DEF RefersTo, Obj
  <2>3. UpValue(upval[c]) \in Value
    BY <1>1, <2>1 DEF UpValue, Fields, IsOpen
  <2>. QED BY <1>2, <2>1, <2>2, <2>3 DEF RefersTo
<1>6. ASSUME NEW o \in OnStack \cap (Tables \cup Userdata)
      PROVE  meta[o] \in Value /\ (meta[o] \in Obj => Alive(meta[o]))
  <2>1. o \in Obj /\ Alive(o)
    BY <1>3 DEF Obj
  <2>. QED BY <1>1, <1>2, <2>1 DEF RefersTo, Kinds, Value, Object
<1>. SUFFICES ASSUME NEW v \in Loadable PROVE v \in Value /\ (v \in Obj => Alive(v))
  OBVIOUS
<1>7. CASE v \in OnStack \cup {Nil, env[running]}
  BY <1>3, <1>7, Distinct DEF Value
<1>8. CASE \E t \in (OnStack \cup {env[running]}) \cap Tables, n \in Node :
             Entry(t, n) /\ v \in {val[t][n], key[t][n]}
  BY <1>4, <1>8
<1>9. CASE \E c \in OnStack \cap Closures : upval[c] # Nil /\ v = UpValue(upval[c])
  BY <1>5, <1>9
<1>10. CASE \E o \in OnStack \cap (Tables \cup Userdata) : v = meta[o]
  BY <1>6, <1>10
<1>11. \/ v \in OnStack \cup {Nil, env[running]}
       \/ \E t \in (OnStack \cup {env[running]}) \cap Tables :
            \E n \in {m \in Node : Entry(t, m)} : v \in {val[t][n], key[t][n]}
       \/ \E c \in {f \in OnStack \cap Closures : upval[f] # Nil} : v = UpValue(upval[c])
       \/ \E o \in OnStack \cap (Tables \cup Userdata) : v = meta[o]
  <2>. DEFINE Of(t) == UNION {{val[t][n], key[t][n]} : n \in {m \in Node : Entry(t, m)}}
              T == (OnStack \cup {env[running]}) \cap Tables
              Entries == UNION {Of(t) : t \in T}
  <2>1. \/ v \in OnStack \cup {Nil, env[running]} \/ v \in Entries
        \/ v \in {UpValue(upval[c]) : c \in {f \in OnStack \cap Closures : upval[f] # Nil}}
        \/ v \in {meta[o] : o \in OnStack \cap (Tables \cup Userdata)}
    BY Zenon DEF Loadable
  <2>2. \A t : v \in Of(t) => \E n \in {m \in Node : Entry(t, m)} : v \in {val[t][n], key[t][n]}
    OBVIOUS
  <2>. HIDE DEF Of
  <2>3. v \in Entries => \E t \in T : v \in Of(t)
    OBVIOUS
  <2>. QED BY <2>1, <2>2, <2>3
<1>. QED BY <1>7, <1>8, <1>9, <1>10, <1>11

(* A value is pushed: levels are also seen through open upvalues.          *)
Stacks == Threads \cup {u \in UpVals : IsOpen(u)}

LEMMA Pushes ==
  ASSUME HeldInv, IInv, NEW l \in Level, NEW v, Push(l, v), UNCHANGED upvalVars
  PROVE  /\ \A th \in Threads, m \in Level :
              stack'[th][m] = stack[th][m] \/ (th \in Stacks /\ stack'[th][m] \in {v})
         /\ \A u \in UpVals : UpValue(u)' = UpValue(u) \/ (u \in Stacks /\ UpValue(u)' \in {v})
         /\ v \in Value => stack' \in [Threads -> [Level -> Value]]
<1>1. running \in Threads /\ Fields
  BY DEF IInv, HeldInv, Kinds
<1>2. \A th \in Threads, m \in Level :
              stack'[th][m] = stack[th][m] \/ (th \in Stacks /\ stack'[th][m] \in {v})
  BY <1>1 DEF Push, Fields, Stacks
<1>3. ASSUME NEW u \in UpVals PROVE UpValue(u)' = UpValue(u) \/ (u \in Stacks /\ UpValue(u)' \in {v})
  <2>1. place' = place /\ value' = value
    BY DEF upvalVars
  <2>2. CASE IsOpen(u)
    <3>1. place[u][1] \in Threads /\ place[u][2] \in Level
      BY <1>1, <2>2 DEF Fields, IsOpen
    <3>2. UpValue(u) = stack[place[u][1]][place[u][2]] /\ UpValue(u)' = stack'[place[u][1]][place[u][2]]
      BY <2>1, <2>2 DEF UpValue, IsOpen
    <3>. QED BY <1>2, <2>2, <3>1, <3>2 DEF Stacks
  <2>3. CASE ~IsOpen(u)
    BY <2>1, <2>3 DEF UpValue, IsOpen
  <2>. QED BY <2>2, <2>3
<1>4. v \in Value => stack' \in [Threads -> [Level -> Value]]
  BY <1>1 DEF Push, Fields
<1>. QED BY <1>2, <1>3, <1>4

LEMMA Whitening ==
  ASSUME HeldInv, IInv, Operation, NEW C, NEW S \in SUBSET Obj,
         UNCHANGED <<listVars, phaseVars, tmudata, sweepstrgc>>,
         sweepgc \subseteq sweepgc', sweepgc' \subseteq sweepgc \cup S,
         \A o \in Obj : \/ marked'[o] = marked[o]
                        \/ marked'[o] = currentwhite /\ (~Exists(o) \/ IsWhite(o)),
         \A o \in S : marked'[o] = currentwhite /\ (o \in UpVals => place'[o] = Closed),
         \A o \in C \cap Obj : marked'[o] # "black",
         \A u \in UpVals : \/ place'[u] = place[u]
                           \/ /\ ~Exists(u) /\ marked'[u] = currentwhite
                              /\ place'[u] # Closed /\ Alive(place'[u][1]) /\ place'[u][1] \in Threads
  PROVE  Recolours /\ Barriers(C) /\ Colouring' /\ SweepList'
<1>1. /\ Kinds /\ Colouring /\ SweepList /\ currentwhite \in Whites
      /\ Whites \cap {"gray", "black", "free"} = {} /\ sweepgc \subseteq Obj
  BY WhitesAssumption DEF IInv, Kinds, HeldInv, Fields
<1>2. Recolours
  BY <1>1 DEF Recolours, Operation, ScriptsRun, phaseVars
<1>3. Barriers(C)
  BY <1>1 DEF Barriers, IsWhite, IsBlack, listVars, Exists, Kinds, Colours, Waiting, Obj
<1>4. Colouring'
  <2>1. \A u \in Userdata \cup Threads \cup UpVals : u \in Obj
    BY DEF Obj
  <2>2. \A o \in Obj : Exists(o) => Exists(o)'
    BY <1>1 DEF Exists
  <2>3. ASSUME NEW u \in UpVals
        PROVE  IF IsOpen(u)' THEN Exists(u)' /\ ~IsBlack(u)' /\ Exists(place[u][1])'
                             ELSE marked'[u] # "gray"
    <3>1. CASE place'[u] = place[u]
      <4>1. IsOpen(u) => place[u][1] \in Threads
        BY DEF HeldInv, Fields, IsOpen
      <4>. QED BY <1>1, <2>1, <2>2, <3>1, <4>1 DEF Colouring, IsOpen, IsBlack
    <3>2. CASE place'[u] # place[u]
      BY <1>1, <2>1, <2>2, <3>2 DEF IsOpen, IsBlack, Exists, Alive
    <3>. QED BY <3>1, <3>2
  <2>4. /\ \A u \in Userdata : marked'[u] # "gray"
        /\ \A th \in Threads : ~IsBlack(th)'
    BY <1>1, <2>1 DEF Colouring, IsBlack
  <2>. QED BY <2>3, <2>4 DEF Colouring
<1>5. SweepList'
  <2>. SUFFICES ASSUME closing = "no", NEW o \in sweepgc' PROVE Exists(o)' /\ (o \in UpVals => ~IsOpen(o)')
    BY DEF SweepList, phaseVars
  <2>1. CASE o \in S
    BY <1>1, <2>1 DEF Exists, IsOpen
  <2>2. CASE o \in sweepgc
    <3>1. Exists(o) /\ (o \in UpVals => ~IsOpen(o)) /\ o \in Obj
      BY <1>1, <2>2 DEF SweepList
    <3>. QED BY <1>1, <3>1 DEF Exists, IsOpen
  <2>. QED BY <2>1, <2>2
<1>. QED BY <1>2, <1>3, <1>4, <1>5

LEMMA SameChain ==
  ASSUME Chain, UNCHANGED <<closing, callee, running>>
  PROVE  Chain'
BY DEF Chain, Follow

LEMMA LinksOnly ==
  ASSUME NEW S, Link(S), Fields, S \subseteq Obj \ Strings
  PROVE  sweepgc \subseteq sweepgc' /\ sweepgc' \subseteq sweepgc \cup S /\ sweepgc' \subseteq Obj \ Strings
BY DEF Link, Fields

(* Operations that create objects, or change stacks only.                  *)
Creation(S, B, C) ==
  /\ Operation /\ UNCHANGED <<listVars, phaseVars, tmudata, sweepstrgc>>
  /\ S \subseteq Obj /\ B \subseteq Obj
  /\ sweepgc \subseteq sweepgc' /\ sweepgc' \subseteq sweepgc \cup S
  /\ \A o \in Obj \ B : marked'[o] = marked[o]
  /\ \A o \in B : \/ marked'[o] = currentwhite /\ (~Exists(o) \/ IsWhite(o))
                  \/ marked'[o] = marked[o] /\ Alive(o)
  /\ \A o \in S : marked'[o] = currentwhite /\ o \notin UpVals
  /\ C \subseteq Stacks \cup {o \in Obj : marked'[o] = currentwhite}
  /\ \A u \in UpVals : \/ place'[u] = place[u]
                       \/ /\ ~Exists(u) /\ marked'[u] = currentwhite
                          /\ place'[u] # Closed /\ Alive(place'[u][1]) /\ place'[u][1] \in Threads

Discovery(B, C, N) ==
  /\ Gain(C, N) /\ \A r \in N \cap Obj : r \in B \/ Alive(r)
  /\ \A o \in B : Refs(o)' \cap Obj \subseteq N
  /\ (Roots \cup {running})' \cap Obj \subseteq Roots \cup {running} \cup N
  /\ \A th \in Threads : callee'[th] # Nil => callee'[th] = callee[th] \/ th = running

LEMMA Creates ==
  ASSUME HeldInv, IInv, Kinds', Fields', Chain', NEW S, NEW B, NEW C, NEW N,
         Creation(S, B, C), Discovery(B, C, N)
  PROVE  HeldInv'
<1>1. Kinds /\ Colouring /\ currentwhite \in Whites /\ Whites \cap {"gray", "black", "free"} = {}
  BY WhitesAssumption DEF IInv, HeldInv, Kinds
<1>2. \A o \in Obj : \/ marked'[o] = marked[o]
                     \/ marked'[o] = currentwhite /\ (~Exists(o) \/ IsWhite(o))
  BY DEF Creation
<1>3. \A o \in C \cap Obj : marked'[o] # "black"
  BY <1>1, <1>2 DEF Colouring, Stacks, IsBlack, Creation
<1>4. Recolours /\ Barriers(C) /\ Colouring' /\ SweepList'
  BY <1>2, <1>3, Whitening DEF Creation
<1>5. \A o \in Obj : Alive(o) => Alive(o)'
  BY <1>1, <1>4, StaysAlive
<1>6. /\ otherwhite' = otherwhite /\ otherwhite # currentwhite
  BY <1>1, TwoWhites DEF otherwhite, phaseVars, Creation
<1>7. \A o \in B : Alive(o)'
  BY <1>1, <1>5, <1>6 DEF Creation, Alive, IsGarbage, IsDead, Exists
<1>8. \A o \in Obj \ B : Alive(o)' => Alive(o)
  BY <1>6 DEF Creation, Alive, IsGarbage, IsDead, Exists
<1>9. Finds(C, N, B)
  BY <1>5, <1>7, <1>8 DEF Finds, Discovery
<1>. QED BY <1>4, <1>9, Operates

LEMMA AliveExists ==
  \A o \in Obj : Alive(o) => Exists(o)
BY DEF Alive

LEMMA HeldNewTable ==
  ASSUME HeldInv, IInv, IInv', NEW t \in Tables, NEW l \in Level, NewTable(t, l)
  PROVE  /\ HeldInv'
         /\ Creation({t}, {t}, Stacks \cup {t})
         /\ Discovery({t}, Stacks \cup {t}, {t, Nil})
<1>. DEFINE C == Stacks \cup {t}
            N == {t, Nil}
<1>1. /\ Operation /\ New(t) /\ Link({t}) /\ marked' = [marked EXCEPT ![t] = currentwhite]
      /\ Push(l, t)
      /\ UNCHANGED <<callee, running, mt, listVars, sweepstrgc, phaseVars, env, closureVars, upvalVars, udataVars>>
      /\ meta' = [meta EXCEPT ![t] = Nil]
      /\ key' = [key EXCEPT ![t] = [n \in Node |-> Nil]]
      /\ val' = [val EXCEPT ![t] = [n \in Node |-> Nil]]
  BY DEF NewTable, Alloc
<1>2. Kinds /\ Kinds' /\ Fields /\ Chain /\ t \in Obj /\ t \in Object /\ t \notin Strings /\ t \notin UpVals
  BY Distinct DEF HeldInv, IInv, Obj, Object
<1>3. /\ \A o \in Obj \ {t} : marked'[o] = marked[o]
      /\ marked'[t] = currentwhite /\ ~Exists(t)
  BY <1>1, <1>2 DEF Kinds, New
<1>4. sweepgc \subseteq sweepgc' /\ sweepgc' \subseteq sweepgc \cup {t} /\ sweepgc' \subseteq Obj \ Strings
  BY <1>1, <1>2, LinksOnly
<1>5. /\ \A th \in Threads, m \in Level :
            stack'[th][m] = stack[th][m] \/ (th \in Stacks /\ stack'[th][m] \in {t})
      /\ \A u \in UpVals : UpValue(u)' = UpValue(u) \/ (u \in Stacks /\ UpValue(u)' \in {t})
      /\ stack' \in [Threads -> [Level -> Value]]
  BY <1>1, <1>2, Pushes DEF Value
<1>6. Fields'
  BY <1>1, <1>2, <1>4, <1>5 DEF Fields, Entry, Value, closureVars, upvalVars, listVars, phaseVars
<1>7. Chain'
  BY <1>1, <1>2, SameChain DEF phaseVars
<1>8. Gain(C, N)
  <2>1. \A o \in Tables \cup Userdata : meta'[o] = meta[o] \/ (o \in C /\ meta'[o] \in N)
    BY <1>1, <1>2 DEF Kinds
  <2>2. \A x \in Tables, n \in Node :
          /\ val'[x][n] = val[x][n] \/ (x \in C /\ val'[x][n] \in N)
          /\ val'[x][n] # Nil => \/ val[x][n] # Nil /\ key'[x][n] = key[x][n]
                                 \/ x \in C /\ key'[x][n] \in N
    <3>1. \A x \in Tables \ {t} : val'[x] = val[x] /\ key'[x] = key[x]
      BY <1>1, <1>2 DEF Fields
    <3>2. val'[t] = [n \in Node |-> Nil]
      BY <1>1, <1>2 DEF Fields
    <3>3. \A n \in Node : val'[t][n] = Nil /\ Nil \in N /\ t \in C
      BY <3>2
    <3>. HIDE DEF C, N
    <3>. QED BY <3>1, <3>3
  <2>3. env' = env /\ proto' = proto /\ upval' = upval /\ k' = k /\ inner' = inner /\ callee' = callee
    BY <1>1 DEF closureVars
  <2>4. Stacks \subseteq C /\ {t} \subseteq N
    OBVIOUS
  <2>. HIDE DEF C, N
  <2>. QED BY <1>5, <2>1, <2>2, <2>3, <2>4, Gains
<1>9. Refs(t)' \cap Obj \subseteq N
  BY <1>1, <1>2, RefsNext, Distinct DEF RefersTo, Kinds, Fields, Entry
<1>10. (Roots \cup {running})' = Roots \cup {running}
  BY <1>1 DEF Roots
<1>11. Creation({t}, {t}, C)
  BY <1>1, <1>2, <1>3, <1>4 DEF Creation, upvalVars, udataVars
<1>12. Discovery({t}, C, N)
  BY <1>1, <1>8, <1>9, <1>10, Distinct DEF Discovery
<1>. QED BY <1>2, <1>6, <1>7, <1>11, <1>12, Creates

LEMMA HeldNewUserdata ==
  ASSUME HeldInv, IInv, IInv', NEW u \in Userdata, NEW l \in Level, NewUserdata(u, l)
  PROVE  /\ HeldInv'
         /\ Creation({u}, {u}, Stacks \cup {u})
         /\ Discovery({u}, Stacks \cup {u}, {u, Nil, env[running]})
<1>. DEFINE C == Stacks \cup {u}
            N == {u, Nil, env[running]}
<1>1. /\ Operation /\ New(u) /\ Link({u}) /\ marked' = [marked EXCEPT ![u] = currentwhite]
      /\ Push(l, u)
      /\ UNCHANGED <<key, val, callee, running, mt, listVars, sweepstrgc, phaseVars, closureVars, upvalVars, tmudata>>
      /\ meta' = [meta EXCEPT ![u] = Nil]
      /\ env' = [env EXCEPT ![u] = env[running]]
  BY DEF NewUserdata, Alloc
<1>2. /\ Kinds /\ Kinds' /\ Fields /\ Chain /\ u \in Obj /\ u \in Object /\ u \notin Strings /\ u \notin UpVals
      /\ u \notin Threads
  BY Distinct DEF HeldInv, IInv, Obj, Object
<1>3. /\ \A o \in Obj \ {u} : marked'[o] = marked[o]
      /\ marked'[u] = currentwhite /\ ~Exists(u)
  BY <1>1, <1>2 DEF Kinds, New
<1>4. sweepgc \subseteq sweepgc' /\ sweepgc' \subseteq sweepgc \cup {u} /\ sweepgc' \subseteq Obj \ Strings
  BY <1>1, <1>2, LinksOnly
<1>5. /\ \A th \in Threads, m \in Level :
            stack'[th][m] = stack[th][m] \/ (th \in Stacks /\ stack'[th][m] \in {u})
      /\ \A w \in UpVals : UpValue(w)' = UpValue(w) \/ (w \in Stacks /\ UpValue(w)' \in {u})
      /\ stack' \in [Threads -> [Level -> Value]]
  BY <1>1, <1>2, Pushes DEF Value
<1>6. Fields'
  BY <1>1, <1>2, <1>4, <1>5 DEF Fields, Entry, Value, closureVars, upvalVars, listVars, phaseVars
<1>7. Chain'
  BY <1>1, <1>2, SameChain DEF phaseVars
<1>8. Gain(C, N)
  <2>1. /\ \A o \in Tables \cup Userdata : meta'[o] = meta[o] \/ (o \in C /\ meta'[o] \in N)
        /\ \A o \in Closures \cup Userdata \cup Threads : env'[o] = env[o] \/ (o \in C /\ env'[o] \in N)
    BY <1>1, <1>2 DEF Kinds
  <2>2. /\ key' = key /\ val' = val /\ proto' = proto /\ upval' = upval
        /\ k' = k /\ inner' = inner /\ callee' = callee
    BY <1>1 DEF closureVars
  <2>3. Stacks \subseteq C /\ {u} \subseteq N
    OBVIOUS
  <2>. HIDE DEF C, N
  <2>. QED BY <1>5, <2>1, <2>2, <2>3, Gains
<1>9. Refs(u)' \cap Obj \subseteq N
  BY <1>1, <1>2, RefsNext, Distinct DEF RefersTo, Kinds
<1>10. (Roots \cup {running})' = Roots \cup {running}
  BY <1>1, <1>2, KindsAssumption DEF Roots, Kinds
<1>11. Creation({u}, {u}, C)
  BY <1>1, <1>2, <1>3, <1>4 DEF Creation, upvalVars
<1>12. Discovery({u}, C, N)
  <2>1. env[running] \in Obj => Alive(env[running])
    BY <1>1, OnStackAlive DEF Operation, ScriptsRun
  <2>. QED BY <1>1, <1>8, <1>9, <1>10, <2>1, Distinct DEF Discovery
<1>. QED BY <1>2, <1>6, <1>7, <1>11, <1>12, Creates

LEMMA HeldPushMethod ==
  ASSUME HeldInv, IInv, IInv', NEW c \in Methods, NEW l \in Level, PushMethod(c, l)
  PROVE  /\ HeldInv'
         /\ Creation({c}, {c}, Stacks \cup {c})
         /\ Discovery({c}, Stacks \cup {c}, {c, Nil, env[running]})
<1>. DEFINE C == Stacks \cup {c}
            N == {c, Nil, env[running]}
<1>1. /\ Operation /\ New(c) /\ Link({c}) /\ marked' = [marked EXCEPT ![c] = currentwhite]
      /\ Push(l, c)
      /\ UNCHANGED <<tableVars, k, inner, callee, running, mt, listVars, sweepstrgc, phaseVars, upvalVars, udataVars>>
      /\ env' = [env EXCEPT ![c] = env[running]]
      /\ proto' = [proto EXCEPT ![c] = Nil]
      /\ upval' = [upval EXCEPT ![c] = Nil]
  BY DEF PushMethod, Alloc
<1>2. /\ Kinds /\ Kinds' /\ Fields /\ Chain /\ c \in Obj /\ c \in Object /\ c \notin Strings /\ c \notin UpVals
      /\ c \notin Threads /\ c \in Closures
  BY Distinct, KindsAssumption DEF HeldInv, IInv, Obj, Object
<1>3. /\ \A o \in Obj \ {c} : marked'[o] = marked[o]
      /\ marked'[c] = currentwhite /\ ~Exists(c)
  BY <1>1, <1>2 DEF Kinds, New
<1>4. sweepgc \subseteq sweepgc' /\ sweepgc' \subseteq sweepgc \cup {c} /\ sweepgc' \subseteq Obj \ Strings
  BY <1>1, <1>2, LinksOnly
<1>5. /\ \A th \in Threads, m \in Level :
            stack'[th][m] = stack[th][m] \/ (th \in Stacks /\ stack'[th][m] \in {c})
      /\ \A w \in UpVals : UpValue(w)' = UpValue(w) \/ (w \in Stacks /\ UpValue(w)' \in {c})
      /\ stack' \in [Threads -> [Level -> Value]]
  BY <1>1, <1>2, Pushes DEF Value
<1>6. Fields'
  BY <1>1, <1>2, <1>4, <1>5 DEF Fields, Entry, tableVars, upvalVars, listVars, phaseVars
<1>7. Chain'
  BY <1>1, <1>2, SameChain DEF phaseVars
<1>8. Gain(C, N)
  <2>1. /\ \A o \in Closures : /\ proto'[o] = proto[o] \/ (o \in C /\ proto'[o] \in N)
                               /\ upval'[o] = upval[o] \/ (o \in C /\ upval'[o] \in N)
        /\ \A o \in Closures \cup Userdata \cup Threads : env'[o] = env[o] \/ (o \in C /\ env'[o] \in N)
    BY <1>1, <1>2 DEF Kinds, Fields
  <2>2. key' = key /\ val' = val /\ meta' = meta /\ k' = k /\ inner' = inner /\ callee' = callee
    BY <1>1 DEF tableVars
  <2>3. Stacks \subseteq C /\ {c} \subseteq N
    OBVIOUS
  <2>. HIDE DEF C, N
  <2>. QED BY <1>5, <2>1, <2>2, <2>3, Gains
<1>9. Refs(c)' \cap Obj \subseteq N
  BY <1>1, <1>2, RefsNext, Distinct DEF RefersTo, Kinds, Fields
<1>10. (Roots \cup {running})' = Roots \cup {running}
  BY <1>1, <1>2, KindsAssumption DEF Roots, Kinds
<1>11. Creation({c}, {c}, C)
  BY <1>1, <1>2, <1>3, <1>4 DEF Creation, upvalVars, udataVars
<1>12. Discovery({c}, C, N)
  <2>1. env[running] \in Obj => Alive(env[running])
    BY <1>1, OnStackAlive DEF Operation, ScriptsRun
  <2>. QED BY <1>1, <1>8, <1>9, <1>10, <2>1, Distinct DEF Discovery
<1>. QED BY <1>2, <1>6, <1>7, <1>11, <1>12, Creates

LEMMA HeldIntern ==
  ASSUME HeldInv, IInv, IInv', NEW s \in Strings, NEW l \in Level, Intern(s, l)
  PROVE  /\ HeldInv'
         /\ Creation({}, {s}, Stacks)
         /\ Discovery({s}, Stacks, {s})
<1>. DEFINE N == {s}
<1>1. /\ Operation /\ Push(l, s)
      /\ marked' = [marked EXCEPT ![s] = IF Exists(s) THEN Revived(s) ELSE currentwhite]
      /\ UNCHANGED <<tableVars, env, closureVars, upvalVars, callee, running, mt,
                     listVars, sweepVars, udataVars, phaseVars>>
  BY DEF Intern
<1>2. Kinds /\ Kinds' /\ Fields /\ Chain /\ s \in Obj /\ s \in Object /\ s \notin UpVals
  BY Distinct DEF HeldInv, IInv, Obj, Object
<1>3. /\ \A o \in Obj \ {s} : marked'[o] = marked[o]
      /\ \/ marked'[s] = currentwhite /\ (~Exists(s) \/ IsWhite(s))
         \/ marked'[s] = marked[s] /\ Alive(s)
  BY <1>1, <1>2, LiveOnes DEF Kinds, Revived, IsDead, Exists
<1>4. /\ \A th \in Threads, m \in Level :
            stack'[th][m] = stack[th][m] \/ (th \in Stacks /\ stack'[th][m] \in {s})
      /\ \A w \in UpVals : UpValue(w)' = UpValue(w) \/ (w \in Stacks /\ UpValue(w)' \in {s})
      /\ stack' \in [Threads -> [Level -> Value]]
  BY <1>1, <1>2, Pushes DEF Value
<1>5. Fields' /\ Chain'
  BY <1>1, <1>2, <1>4, SameChain
     DEF Fields, Entry, tableVars, closureVars, upvalVars, listVars, sweepVars, phaseVars
<1>6. Gain(Stacks, N)
  <2>1. /\ key' = key /\ val' = val /\ meta' = meta /\ k' = k /\ inner' = inner /\ callee' = callee
        /\ env' = env /\ proto' = proto /\ upval' = upval
    BY <1>1 DEF tableVars, closureVars
  <2>. QED BY <1>4, <2>1, Gains
<1>7. Refs(s)' \cap Obj \subseteq N
  BY <1>2, RefsNext, Distinct DEF RefersTo
<1>8. Creation({}, {s}, Stacks)
  BY <1>1, <1>2, <1>3 DEF Creation, upvalVars, udataVars, sweepVars
<1>9. Discovery({s}, Stacks, N)
  BY <1>1, <1>6, <1>7 DEF Discovery, Roots
<1>. QED BY <1>2, <1>5, <1>8, <1>9, Creates

LEMMA HeldNewThread ==
  ASSUME HeldInv, IInv, IInv', NEW th \in Threads, NEW l \in Level, NewThread(th, l)
  PROVE  /\ HeldInv'
         /\ Creation({th}, {th}, Stacks)
         /\ Discovery({th}, Stacks, {th, Nil, env[running]})
<1>. DEFINE N == {th, Nil, env[running]}
<1>1. /\ Operation /\ New(th) /\ Link({th}) /\ marked' = [marked EXCEPT ![th] = currentwhite]
      /\ UNCHANGED <<tableVars, closureVars, upvalVars, running, mt, listVars, sweepstrgc, udataVars, phaseVars>>
      /\ stack' = [stack EXCEPT ![running][l] = th, ![th] = [m \in Level |-> Nil]]
      /\ callee' = [callee EXCEPT ![th] = Nil]
      /\ env' = [env EXCEPT ![th] = env[running]]
  BY DEF NewThread
<1>2. /\ Kinds /\ Kinds' /\ Fields /\ Chain /\ th \in Obj /\ th \in Object /\ th \notin Strings /\ th \notin UpVals
      /\ running \in Threads
  BY Distinct DEF HeldInv, IInv, Obj, Object, Kinds
<1>3. /\ \A o \in Obj \ {th} : marked'[o] = marked[o]
      /\ marked'[th] = currentwhite /\ ~Exists(th)
  BY <1>1, <1>2 DEF Kinds, New
<1>4. sweepgc \subseteq sweepgc' /\ sweepgc' \subseteq sweepgc \cup {th} /\ sweepgc' \subseteq Obj \ Strings
  BY <1>1, <1>2, LinksOnly
<1>5. /\ closing # "closed" /\ th # running /\ th # mainthread
      /\ env[running] \in Obj => Alive(env[running])
  <2>1. closing # "closed"
    BY <1>1 DEF Operation, ScriptsRun
  <2>. QED BY <1>2, <1>3, <2>1, OnStackAlive, Distinct, KindsAssumption DEF HeldInv, HoldsAlive, Roots, Alive
<1>6. callee' = callee
  <2>1. callee[th] = Nil
    BY <1>3, <1>5 DEF HeldInv, Callers, Alive
  <2>. QED BY <1>1, <1>2, <2>1 DEF Fields
<1>7. /\ \A x \in Threads, m \in Level :
            stack'[x][m] = stack[x][m] \/ (x \in Stacks /\ stack'[x][m] \in N)
      /\ stack' \in [Threads -> [Level -> Value]]
  <2>1. /\ \A x \in Threads \ {running, th} : stack'[x] = stack[x]
        /\ stack'[running] = [stack[running] EXCEPT ![l] = th]
        /\ stack'[th] = [m \in Level |-> Nil]
    BY <1>1, <1>2, <1>5 DEF Fields
  <2>2. \A m \in Level : /\ stack'[running][m] = IF m = l THEN th ELSE stack[running][m]
                         /\ stack'[th][m] = Nil
    BY <1>2, <2>1 DEF Fields
  <2>3. stack' \in [Threads -> [Level -> Value]]
    <3>1. \A x \in Threads : stack'[x] \in [Level -> Value]
      <4>1. stack'[running] \in [Level -> Value] /\ stack'[th] \in [Level -> Value]
        <5>1. th \in Value /\ Nil \in Value /\ stack[running] \in [Level -> Value]
          BY <1>2 DEF Fields, Value
        <5>. QED BY <2>1, <5>1
      <4>2. \A x \in Threads \ {running, th} : stack'[x] \in [Level -> Value]
        BY <2>1, <1>2 DEF Fields
      <4>. QED BY <4>1, <4>2
    <3>2. stack' = [x \in Threads |-> stack'[x]]
      BY <1>1, <1>2 DEF Fields
    <3>. QED BY <3>1, <3>2
  <2>. QED BY <2>1, <2>2, <2>3 DEF Stacks
<1>8. \A w \in UpVals : UpValue(w)' = UpValue(w) \/ (w \in Stacks /\ UpValue(w)' \in N)
  <2>. SUFFICES ASSUME NEW w \in UpVals PROVE UpValue(w)' = UpValue(w) \/ (w \in Stacks /\ UpValue(w)' \in N)
    OBVIOUS
  <2>. HIDE DEF N
  <2>1. place' = place /\ value' = value
    BY <1>1 DEF upvalVars
  <2>2. IsOpen(w) => place[w][1] \in Threads /\ place[w][2] \in Level
    BY <1>2 DEF Fields, IsOpen
  <2>. QED BY <1>7, <2>1, <2>2 DEF UpValue, IsOpen, Stacks
<1>9. Fields' /\ Chain'
  BY <1>1, <1>2, <1>4, <1>6, <1>7, SameChain
     DEF Fields, Entry, tableVars, closureVars, upvalVars, listVars, phaseVars
<1>10. Gain(Stacks, N)
  <2>1. /\ key' = key /\ val' = val /\ meta' = meta /\ k' = k /\ inner' = inner /\ proto' = proto /\ upval' = upval
    BY <1>1 DEF tableVars, closureVars
  <2>2. \A o \in Closures \cup Userdata \cup Threads : env'[o] = env[o] \/ (o \in Stacks /\ env'[o] \in N)
    BY <1>1, <1>2 DEF Kinds, Stacks
  <2>. HIDE DEF N
  <2>. QED BY <1>6, <1>7, <1>8, <2>1, <2>2, Gains
<1>11. Refs(th)' \cap Obj \subseteq N
  <2>1. \A m \in Level : stack'[th][m] = Nil
    BY <1>1, <1>2 DEF Fields
  <2>2. env'[th] = env[running] /\ callee'[th] = Nil
    BY <1>1, <1>2 DEF Kinds, Fields
  <2>. QED BY <1>2, <2>1, <2>2, RefsNext, Distinct DEF RefersTo
<1>12. (Roots \cup {running})' = Roots \cup {running}
  BY <1>1, <1>2, <1>5, KindsAssumption DEF Roots, Kinds
<1>13. Creation({th}, {th}, Stacks)
  BY <1>1, <1>2, <1>3, <1>4 DEF Creation, upvalVars, udataVars
<1>14. Discovery({th}, Stacks, N)
  BY <1>5, <1>6, <1>10, <1>11, <1>12, Distinct DEF Discovery
<1>. QED BY <1>2, <1>9, <1>13, <1>14, Creates

LEMMA HeldMove ==
  ASSUME HeldInv, IInv, IInv', NEW l \in Level, NEW v \in Loadable, Move(l, v)
  PROVE  /\ HeldInv'
         /\ Creation({}, {}, Stacks)
         /\ Discovery({}, Stacks, {v})
<1>1. /\ Operation /\ Push(l, v)
      /\ UNCHANGED <<tableVars, env, closureVars, upvalVars, callee, running, mt>> /\ Unmarked
  BY DEF Move
<1>2. /\ Kinds /\ Kinds' /\ Fields /\ Chain /\ v \in Value /\ (v \in Obj => Alive(v))
  BY <1>1, LoadableAlive DEF HeldInv, IInv, Operation, ScriptsRun
<1>3. /\ \A th \in Threads, m \in Level :
            stack'[th][m] = stack[th][m] \/ (th \in Stacks /\ stack'[th][m] \in {v})
      /\ \A w \in UpVals : UpValue(w)' = UpValue(w) \/ (w \in Stacks /\ UpValue(w)' \in {v})
      /\ stack' \in [Threads -> [Level -> Value]]
  BY <1>1, <1>2, Pushes
<1>4. Fields' /\ Chain'
  BY <1>1, <1>2, <1>3, SameChain
     DEF Fields, Entry, tableVars, closureVars, upvalVars, Unmarked, listVars, sweepVars, phaseVars
<1>5. Gain(Stacks, {v})
  <2>1. /\ key' = key /\ val' = val /\ meta' = meta /\ k' = k /\ inner' = inner /\ callee' = callee
        /\ env' = env /\ proto' = proto /\ upval' = upval
    BY <1>1 DEF tableVars, closureVars
  <2>. QED BY <1>3, <2>1, Gains
<1>6. Creation({}, {}, Stacks)
  BY <1>1, <1>2 DEF Creation, upvalVars, Unmarked, udataVars, sweepVars
<1>7. Discovery({}, Stacks, {v})
  BY <1>1, <1>2, <1>5 DEF Discovery, Roots
<1>. QED BY <1>2, <1>4, <1>6, <1>7, Creates

LEMMA HeldSetStringMetatable ==
  ASSUME HeldInv, IInv, IInv', NEW m \in Tables \cup {Nil}, SetStringMetatable(m)
  PROVE  /\ HeldInv'
         /\ Creation({}, {}, {})
         /\ Discovery({}, {}, {m})
<1>1. /\ Operation /\ m \in Loadable /\ mt' = m
      /\ UNCHANGED <<tableVars, env, closureVars, threadVars, upvalVars>> /\ Unmarked
  BY DEF SetStringMetatable
<1>2. /\ Kinds /\ Kinds' /\ Fields /\ Chain /\ (m \in Obj => Alive(m))
  BY <1>1, LoadableAlive DEF HeldInv, IInv, Operation, ScriptsRun
<1>3. Fields' /\ Chain'
  BY <1>1, <1>2, SameChain
     DEF Fields, Entry, tableVars, closureVars, threadVars, upvalVars, Unmarked, listVars, sweepVars, phaseVars
<1>4. Gain({}, {m})
  <2>1. /\ key' = key /\ val' = val /\ meta' = meta /\ k' = k /\ inner' = inner /\ callee' = callee
        /\ env' = env /\ proto' = proto /\ upval' = upval /\ stack' = stack
        /\ \A u \in UpVals : UpValue(u)' = UpValue(u)
    BY <1>1 DEF tableVars, closureVars, threadVars, upvalVars, UpValue, IsOpen
  <2>. QED BY <2>1, Gains
<1>5. Creation({}, {}, {})
  BY <1>1, <1>2 DEF Creation, upvalVars, Unmarked, udataVars, sweepVars
<1>6. Discovery({}, {}, {m})
  BY <1>1, <1>2, <1>4 DEF Discovery, Roots, threadVars
<1>. QED BY <1>2, <1>3, <1>5, <1>6, Creates

(* The threads found from the main one end where the running thread is.    *)
LEMMA HeldResume ==
  ASSUME HeldInv, IInv, IInv', NEW th \in Threads, Resume(th)
  PROVE  /\ HeldInv'
         /\ Creation({}, {}, Stacks)
         /\ Discovery({}, Stacks, {th})
<1>1. /\ Operation /\ th \in Loadable /\ th # running /\ callee[th] = Nil
      /\ running' = th /\ callee' = [callee EXCEPT ![running] = th]
      /\ UNCHANGED <<tableVars, env, closureVars, stack, upvalVars, mt>> /\ Unmarked
  BY DEF Resume
<1>2. /\ Kinds /\ Kinds' /\ Fields /\ Chain /\ th \in Obj /\ Alive(th) /\ running \in Threads
  BY <1>1, LoadableAlive DEF HeldInv, IInv, Operation, ScriptsRun, Obj, Kinds
<1>3. /\ \A x \in Threads \ {running} : callee'[x] = callee[x]
      /\ callee'[running] = th /\ callee' \in [Threads -> Threads \cup {Nil}]
  BY <1>1, <1>2 DEF Fields
<1>4. Fields'
  BY <1>1, <1>2, <1>3
     DEF Fields, Entry, tableVars, closureVars, upvalVars, Unmarked, listVars, sweepVars, phaseVars
<1>5. Chain'
  <2>. SUFFICES ASSUME closing = "no" PROVE Chain'
    BY <1>1 DEF Chain, Unmarked, phaseVars
  <2>1. ASSUME NEW S \in SUBSET Threads, Follow(S)'
        PROVE  th \in S /\ \A x \in Threads : callee'[x] # Nil => x \in S
    <3>1. callee[running] = Nil
      BY <1>2 DEF Chain
    <3>2. Follow(S)
      BY <1>3, <2>1, <3>1 DEF Follow
    <3>3. running \in S /\ \A x \in Threads : callee[x] # Nil => x \in S
      BY <1>2, <3>2 DEF Chain
    <3>. QED BY <1>3, <2>1, <3>3, KindsAssumption DEF Follow, Obj
  <2>2. callee'[th] = Nil
    BY <1>1, <1>3
  <2>. QED BY <1>1, <2>1, <2>2 DEF Chain
<1>6. Gain(Stacks, {th})
  <2>1. /\ key' = key /\ val' = val /\ meta' = meta /\ k' = k /\ inner' = inner
        /\ env' = env /\ proto' = proto /\ upval' = upval /\ stack' = stack
        /\ \A u \in UpVals : UpValue(u)' = UpValue(u)
    BY <1>1 DEF tableVars, closureVars, upvalVars, UpValue, IsOpen
  <2>2. \A x \in Threads : callee'[x] = callee[x] \/ (x \in Stacks /\ callee'[x] \in {th})
    BY <1>3 DEF Stacks
  <2>. QED BY <2>1, <2>2, Gains
<1>7. Creation({}, {}, Stacks)
  BY <1>1, <1>2 DEF Creation, upvalVars, Unmarked, udataVars, sweepVars
<1>8. Discovery({}, Stacks, {th})
  BY <1>1, <1>2, <1>3, <1>6 DEF Discovery, Roots
<1>. QED BY <1>2, <1>4, <1>5, <1>7, <1>8, Creates

LEMMA HeldYield ==
  ASSUME HeldInv, IInv, IInv', NEW th \in Threads, Yield(th)
  PROVE  /\ HeldInv'
         /\ Creation({}, {}, Stacks)
         /\ Discovery({}, Stacks, {th, Nil})
<1>1. /\ Operation /\ callee[th] = running
      /\ running' = th /\ callee' = [callee EXCEPT ![th] = Nil]
      /\ UNCHANGED <<tableVars, env, closureVars, stack, upvalVars, mt>> /\ Unmarked
  BY DEF Yield
<1>2. /\ Kinds /\ Kinds' /\ Fields /\ Chain /\ th \in Obj /\ Alive(th) /\ running \in Threads /\ running # Nil
  <2>1. running \in Threads /\ running # Nil /\ th \in Obj
    BY Distinct DEF IInv, Kinds, Obj
  <2>. QED BY <1>1, <2>1 DEF HeldInv, IInv, Operation, ScriptsRun, Callers
<1>3. /\ \A x \in Threads \ {th} : callee'[x] = callee[x]
      /\ callee'[th] = Nil /\ callee' \in [Threads -> Threads \cup {Nil}]
  BY <1>1, <1>2 DEF Fields
<1>4. Fields'
  BY <1>1, <1>2, <1>3
     DEF Fields, Entry, tableVars, closureVars, upvalVars, Unmarked, listVars, sweepVars, phaseVars
<1>5. Chain'
  <2>. SUFFICES ASSUME closing = "no" PROVE Chain'
    BY <1>1 DEF Chain, Unmarked, phaseVars
  <2>1. callee[running] = Nil
    BY <1>2 DEF Chain
  <2>2. ASSUME NEW S \in SUBSET Threads, Follow(S)'
        PROVE  th \in S /\ \A x \in Threads : callee'[x] # Nil => x \in S
    <3>1. Follow(S \cup {running})
      BY <1>1, <1>3, <2>1, <2>2 DEF Follow
    <3>2. \A x \in Threads : callee[x] # Nil => x \in S \cup {running}
      BY <1>2, <3>1 DEF Chain
    <3>. QED BY <1>1, <1>2, <1>3, <2>1, <3>2
  <2>. QED BY <1>1, <1>3, <2>2 DEF Chain
<1>6. Gain(Stacks, {th, Nil})
  <2>1. /\ key' = key /\ val' = val /\ meta' = meta /\ k' = k /\ inner' = inner
        /\ env' = env /\ proto' = proto /\ upval' = upval /\ stack' = stack
        /\ \A u \in UpVals : UpValue(u)' = UpValue(u)
    BY <1>1 DEF tableVars, closureVars, upvalVars, UpValue, IsOpen
  <2>2. \A x \in Threads : callee'[x] = callee[x] \/ (x \in Stacks /\ callee'[x] \in {th, Nil})
    BY <1>3 DEF Stacks
  <2>. QED BY <2>1, <2>2, Gains
<1>7. Creation({}, {}, Stacks)
  BY <1>1, <1>2 DEF Creation, upvalVars, Unmarked, udataVars, sweepVars
<1>8. Discovery({}, Stacks, {th, Nil})
  BY <1>1, <1>2, <1>3, <1>6, Distinct DEF Discovery, Roots
<1>. QED BY <1>2, <1>4, <1>5, <1>7, <1>8, Creates

LEMMA HeldLoad ==
  ASSUME HeldInv, IInv, IInv', NEW c \in Closures, NEW p \in Protos, NEW q \in Protos \cup {Nil},
         NEW s \in Strings \cup {Nil}, NEW l \in Level, Load(c, p, q, s, l)
  PROVE  /\ HeldInv'
         /\ Creation({c, p} \cup ({q} \ {Nil}), {c, p} \cup ({q} \ {Nil}), Stacks \cup ({c, p} \cup ({q} \ {Nil})))
         /\ Discovery({c, p} \cup ({q} \ {Nil}), Stacks \cup ({c, p} \cup ({q} \ {Nil})), ({c, p} \cup ({q} \ {Nil})) \cup {Nil, s, env[running]})
<1>. DEFINE new == {c, p} \cup ({q} \ {Nil})
            C == Stacks \cup new
            N == new \cup {Nil, s, env[running]}
<1>1. /\ Operation /\ q # p /\ s \in Loadable /\ Push(l, c)
      /\ ~Exists(p) /\ ~Exists(c) /\ (q # Nil => ~Exists(q))
      /\ marked' = Whitened(marked, new) /\ Link(new)
      /\ k' = [r \in Protos |-> IF r = p THEN s ELSE IF r = q THEN Nil ELSE k[r]]
      /\ inner' = [r \in Protos |-> IF r = p THEN q ELSE IF r = q THEN Nil ELSE inner[r]]
      /\ proto' = [proto EXCEPT ![c] = p]
      /\ upval' = [upval EXCEPT ![c] = Nil]
      /\ env' = [env EXCEPT ![c] = env[running]]
      /\ UNCHANGED <<tableVars, upvalVars, callee, running, mt, listVars, sweepstrgc, udataVars, phaseVars>>
  BY DEF Load
<1>2. /\ Kinds /\ Kinds' /\ Fields /\ Chain /\ c \in Obj /\ c \in Value /\ c \notin UpVals /\ c \notin Threads
      /\ p \in Obj /\ p \notin UpVals
  BY Distinct DEF HeldInv, IInv, Obj, Object, Value
<1>3. new \subseteq Obj \ (Strings \cup UpVals) /\ \A o \in new : ~Exists(o)
  BY <1>1, <1>2, Distinct DEF Obj
<1>4. /\ \A o \in Obj \ new : marked'[o] = marked[o]
      /\ \A o \in new : marked'[o] = currentwhite
  BY <1>1, <1>3 DEF Whitened
<1>5. sweepgc \subseteq sweepgc' /\ sweepgc' \subseteq sweepgc \cup new /\ sweepgc' \subseteq Obj \ Strings
  BY <1>1, <1>2, <1>3, LinksOnly
<1>6. /\ \A th \in Threads, m \in Level :
            stack'[th][m] = stack[th][m] \/ (th \in Stacks /\ stack'[th][m] \in {c})
      /\ \A w \in UpVals : UpValue(w)' = UpValue(w) \/ (w \in Stacks /\ UpValue(w)' \in {c})
      /\ stack' \in [Threads -> [Level -> Value]]
  BY <1>1, <1>2, Pushes
<1>7. Fields'
  <2>1. /\ proto' \in [Closures -> Protos \cup {Nil}] /\ upval' \in [Closures -> UpVals \cup {Nil}]
        /\ k' \in [Protos -> Strings \cup {Nil}] /\ inner' \in [Protos -> Protos \cup {Nil}]
    BY <1>1, <1>2 DEF Fields
  <2>. QED BY <1>1, <1>2, <1>5, <1>6, <2>1 DEF Fields, Entry, tableVars, upvalVars, listVars, phaseVars
<1>8. Chain'
  BY <1>1, <1>2, SameChain DEF phaseVars
<1>9. \A x \in new \ {c} : x \in Protos
  OBVIOUS
<1>10. Gain(C, N)
  <2>1. /\ \A o \in Closures : /\ proto'[o] = proto[o] \/ (o \in C /\ proto'[o] \in N)
                               /\ upval'[o] = upval[o] \/ (o \in C /\ upval'[o] \in N)
        /\ \A o \in Closures \cup Userdata \cup Threads : env'[o] = env[o] \/ (o \in C /\ env'[o] \in N)
    BY <1>1, <1>2 DEF Kinds, Fields
  <2>2. \A o \in Protos : /\ k'[o] = k[o] \/ (o \in C /\ k'[o] \in N)
                          /\ inner'[o] = inner[o] \/ (o \in C /\ inner'[o] \in N)
    <3>1. \A o \in Protos \ {p, q} : k'[o] = k[o] /\ inner'[o] = inner[o]
      BY <1>1
    <3>2. k'[p] = s /\ inner'[p] = q /\ (q \in Protos => k'[q] = Nil /\ inner'[q] = Nil)
      BY <1>1
    <3>3. p \in C /\ (q \in Protos => q \in C) /\ {s, q, Nil} \subseteq N
      BY Distinct DEF Obj
    <3>. HIDE DEF C, N
    <3>. QED BY <3>1, <3>2, <3>3
  <2>3. key' = key /\ val' = val /\ meta' = meta /\ callee' = callee
    BY <1>1 DEF tableVars
  <2>4. Stacks \subseteq C /\ {c} \subseteq N
    OBVIOUS
  <2>. HIDE DEF C, N
  <2>. QED BY <1>6, <2>1, <2>2, <2>3, <2>4, Gains
<1>11. ASSUME NEW o \in new PROVE Refs(o)' \cap Obj \subseteq N
  <2>1. CASE o = c
    <3>1. proto'[c] = p /\ upval'[c] = Nil /\ env'[c] = env[running]
      BY <1>1, <1>2 DEF Kinds, Fields
    <3>. QED BY <1>2, <2>1, <3>1, RefsNext, Distinct DEF RefersTo
  <2>2. CASE o # c
    <3>1. o \in Protos /\ o \in Obj /\ o \in {p, q}
      BY <1>9, <2>2 DEF Obj
    <3>2. k'[o] \in N /\ inner'[o] \in N \cup {Nil}
      BY <1>1, <3>1
    <3>. QED BY <3>1, <3>2, RefsNext, Distinct DEF RefersTo
  <2>. QED BY <2>1, <2>2
<1>12. (Roots \cup {running})' = Roots \cup {running}
  BY <1>1, <1>2, KindsAssumption DEF Roots, Kinds
<1>13. Creation(new, new, C)
  BY <1>1, <1>2, <1>3, <1>4, <1>5 DEF Creation, upvalVars, udataVars
<1>14. Discovery(new, C, N)
  <2>1. /\ env[running] \in Obj => Alive(env[running])
        /\ s \in Obj => Alive(s)
    BY <1>1, OnStackAlive, LoadableAlive DEF Operation, ScriptsRun
  <2>. QED BY <1>1, <1>10, <1>11, <1>12, <2>1, Distinct DEF Discovery
<1>. QED BY <1>2, <1>7, <1>8, <1>13, <1>14, Creates

(* The upvalue is new, or open and perhaps found dead, or the function's.  *)
(* A new closure refers to its upvalue, and with that to a value.          *)
FoundBy(c, u, N) ==
  \A r \in N : r \in {c, u, Nil, proto'[c], env'[c]} \/ (u # Nil /\ r = UpValue(u)')

LEMMA HeldNewClosure ==
  ASSUME HeldInv, IInv, IInv', NEW f \in Closures, NEW c \in Closures, NEW u \in UpVals \cup {Nil},
         NEW l \in Level, NewClosure(f, c, u, l)
  PROVE  /\ HeldInv'
         /\ \E B, C, N : /\ Creation({c}, B, C) /\ Discovery(B, C, N) /\ B \subseteq {c, u}
                         /\ FoundBy(c, u, N)
<1>. DEFINE fresh == IF u = Nil \/ Exists(u) THEN {} ELSE {u}
            B == {c} \cup ({u} \ {Nil})
            C == Stacks \cup {o \in B : marked'[o] = currentwhite}
            N == {c, u, Nil, inner[proto[f]], env[f]} \cup {UpValue(w)' : w \in {u} \ {Nil}}
<1>1. /\ Operation /\ ~Exists(c) /\ f \in Loadable /\ proto[f] # Nil /\ Push(l, c) /\ Link({c})
      /\ \/ u = upval[f] /\ UNCHANGED place
         \/ u # Nil /\ \E m \in Level : FindUpVal(u, m)
      /\ marked' = [o \in Obj |-> IF o \in {c} \cup fresh THEN currentwhite
                                  ELSE IF o = u /\ place'[u] # Closed THEN Revived(o) ELSE marked[o]]
      /\ proto' = [proto EXCEPT ![c] = inner[proto[f]]]
      /\ upval' = [upval EXCEPT ![c] = u]
      /\ env' = [env EXCEPT ![c] = env[f]]
      /\ UNCHANGED <<tableVars, k, inner, value, callee, running, mt, listVars, sweepstrgc, udataVars, phaseVars>>
  BY DEF NewClosure
<1>2. /\ Kinds /\ Kinds' /\ Fields /\ Chain /\ HoldsAlive /\ closing # "closed"
      /\ c \in Obj /\ c \in Value /\ c \notin UpVals /\ c \notin Threads /\ c \notin Strings /\ f \in Obj
      /\ running \in Threads /\ running \in Obj /\ c # u
  BY <1>1, Distinct DEF HeldInv, IInv, Obj, Object, Value, Kinds, Operation, ScriptsRun
<1>3. /\ Alive(f) /\ Alive(running)
      /\ \A o \in Obj, r \in Obj : Alive(o) /\ RefersTo(o, r) => Alive(r)
      /\ \A v \in OnStack : v \in Value /\ (v \in Obj => Alive(v))
  BY <1>1, <1>2, LoadableAlive, OnStackAlive, RefsOf DEF HoldsAlive
<1>4. /\ proto[f] \in Protos /\ proto[f] \in Obj /\ Alive(proto[f])
      /\ inner[proto[f]] \in Protos \cup {Nil} /\ (inner[proto[f]] \in Obj => Alive(inner[proto[f]]))
      /\ env[f] \in Obj => Alive(env[f])
  <2>1. proto[f] \in Protos /\ proto[f] \in Obj
    BY <1>1, <1>2 DEF Fields, Obj
  <2>2. Alive(proto[f]) /\ (env[f] \in Obj => Alive(env[f]))
    BY <1>2, <1>3, <2>1 DEF RefersTo
  <2>. QED BY <1>2, <1>3, <2>1, <2>2 DEF RefersTo, Fields
<1>5. /\ stack' \in [Threads -> [Level -> Value]]
      /\ \A th \in Threads, m \in Level :
            stack'[th][m] = stack[th][m] \/ (th \in Stacks /\ stack'[th][m] = c)
      /\ \A m \in Level : stack'[running][m] \in OnStack \cup {c}
  BY <1>1, <1>2 DEF Push, Fields, Stacks, OnStack
<1>6. ASSUME NEW w \in UpVals, place'[w] = place[w]
      PROVE  UpValue(w)' = UpValue(w) \/ (IsOpen(w) /\ UpValue(w)' = c)
  <2>1. CASE IsOpen(w)
    <3>1. place[w][1] \in Threads /\ place[w][2] \in Level
      BY <1>2, <2>1 DEF Fields, IsOpen
    <3>. QED BY <1>5, <1>6, <2>1, <3>1 DEF UpValue, IsOpen
  <2>2. CASE ~IsOpen(w)
    BY <1>1, <1>6, <2>2 DEF UpValue, IsOpen
  <2>. QED BY <2>1, <2>2
<1>7. ASSUME u # Nil
      PROVE  /\ u \in UpVals /\ u \in Obj
             /\ \/ place' = place /\ Exists(u) /\ (IsOpen(u) \/ Alive(u))
                   /\ (UpValue(u) \in Obj => Alive(UpValue(u)))
                \/ /\ ~Exists(u)
                   /\ \E m \in Level : place' = [place EXCEPT ![u] = <<running, m>>]
  <2>1. u \in UpVals /\ u \in Obj
    BY <1>7 DEF Obj
  <2>2. CASE u = upval[f] /\ place' = place
    <3>1. Alive(u)
      BY <1>2, <1>3, <2>1, <2>2 DEF RefersTo
    <3>2. UpValue(u) \in Obj => Alive(UpValue(u))
      BY <1>3, <2>1, <3>1 DEF RefersTo
    <3>. QED BY <2>1, <2>2, <3>1, <3>2 DEF Alive
  <2>3. ASSUME NEW m \in Level, Exists(u), place[u] = <<running, m>>, place' = place
        PROVE  Exists(u) /\ IsOpen(u) /\ (UpValue(u) \in Obj => Alive(UpValue(u)))
    <3>1. place[u] \in Threads \X Level
      BY <1>2, <2>3
    <3>2. IsOpen(u) /\ UpValue(u) \in OnStack
      BY <2>3, <3>1, TraversedAssumption DEF IsOpen, UpValue, OnStack
    <3>. QED BY <1>3, <2>3, <3>2
  <2>. QED BY <1>1, <2>1, <2>2, <2>3 DEF FindUpVal
<1>8. u # Nil => UpValue(u)' \in Value /\ (UpValue(u)' \in Obj => UpValue(u)' = c \/ Alive(UpValue(u)'))
  <2>. SUFFICES ASSUME u # Nil PROVE UpValue(u)' \in Value /\ (UpValue(u)' \in Obj => UpValue(u)' = c \/ Alive(UpValue(u)'))
    OBVIOUS
  <2>1. CASE place' = place /\ (UpValue(u) \in Obj => Alive(UpValue(u)))
    <3>1. UpValue(u) \in Value
      BY <1>2, <1>7 DEF UpValue, Fields, IsOpen
    <3>. QED BY <1>2, <1>6, <1>7, <2>1, <3>1
  <2>2. ASSUME NEW m \in Level, place' = [place EXCEPT ![u] = <<running, m>>]
        PROVE  UpValue(u)' \in Value /\ (UpValue(u)' \in Obj => UpValue(u)' = c \/ Alive(UpValue(u)'))
    <3>1. place'[u] = <<running, m>>
      BY <1>2, <1>7, <2>2 DEF Fields
    <3>2. <<running, m>> # Closed
      BY <1>2, TraversedAssumption
    <3>3. UpValue(u)' = stack'[running][m]
      BY <3>1, <3>2 DEF UpValue, IsOpen
    <3>. QED BY <1>2, <1>3, <1>5, <3>3
  <2>. QED BY <1>7, <2>1, <2>2
<1>9. /\ place' \in [UpVals -> (Threads \X Level) \cup {Closed}]
      /\ \A w \in UpVals : \/ place'[w] = place[w]
                           \/ w = u /\ ~Exists(u) /\ \E m \in Level : place'[w] = <<running, m>>
  <2>1. CASE place' = place
    BY <1>2, <2>1 DEF Fields
  <2>2. ASSUME NEW m \in Level, u \in UpVals, ~Exists(u), place' = [place EXCEPT ![u] = <<running, m>>]
        PROVE  /\ place' \in [UpVals -> (Threads \X Level) \cup {Closed}]
               /\ place'[u] = <<running, m>>
               /\ \A w \in UpVals \ {u} : place'[w] = place[w]
    <3>1. <<running, m>> \in Threads \X Level
      BY <1>2
    <3>. QED BY <1>2, <2>2, <3>1 DEF Fields
  <2>3. u = Nil => place' = place
    BY <1>1
  <2>. QED BY <1>7, <2>1, <2>2, <2>3
<1>10. \A w \in UpVals : \/ place'[w] = place[w]
                         \/ /\ w = u /\ ~Exists(w)
                            /\ place'[w] # Closed /\ Alive(place'[w][1]) /\ place'[w][1] \in Threads
  <2>1. \A m \in Level : <<running, m>> # Closed
    BY <1>2, TraversedAssumption
  <2>. QED BY <1>2, <1>3, <1>9, <2>1
<1>11. /\ \A o \in Obj \ B : marked'[o] = marked[o]
       /\ marked'[c] = currentwhite
       /\ u # Nil => \/ marked'[u] = currentwhite /\ (~Exists(u) \/ IsWhite(u))
                     \/ marked'[u] = marked[u] /\ Alive(u)
       /\ u # Nil /\ ~Exists(u) => marked'[u] = currentwhite
  <2>1. /\ \A o \in Obj \ B : marked'[o] = marked[o]
        /\ marked'[c] = currentwhite
    BY <1>1, <1>2, Distinct
  <2>2. CASE u # Nil /\ ~Exists(u)
    BY <1>1, <1>7, <2>1, <2>2
  <2>3. CASE u # Nil /\ Exists(u)
    <3>1. /\ marked'[u] = IF place'[u] # Closed THEN Revived(u) ELSE marked[u]
          /\ place' = place /\ u \in Obj /\ u \in UpVals
      BY <1>1, <1>2, <1>7, <2>3
    <3>2. CASE IsOpen(u)
      <4>1. marked'[u] = Revived(u)
        BY <3>1, <3>2 DEF IsOpen
      <4>2. IsDead(u) => IsWhite(u)
        BY <1>2, TwoWhites DEF IsDead, IsWhite, Kinds
      <4>3. ~IsDead(u) => Alive(u)
        BY <2>3 DEF Alive, IsGarbage
      <4>. QED BY <2>1, <2>3, <4>1, <4>2, <4>3 DEF Revived
    <3>3. CASE ~IsOpen(u)
      <4>1. marked'[u] = marked[u]
        BY <3>1, <3>3 DEF IsOpen
      <4>2. Alive(u)
        BY <1>7, <2>3, <3>3
      <4>. QED BY <2>1, <2>3, <4>1, <4>2
    <3>. QED BY <2>3, <3>2, <3>3
  <2>. QED BY <2>1, <2>2, <2>3
<1>12. sweepgc \subseteq sweepgc' /\ sweepgc' \subseteq sweepgc \cup {c} /\ sweepgc' \subseteq Obj \ Strings
  BY <1>1, <1>2, LinksOnly
<1>13. Fields'
  <2>1. /\ proto' \in [Closures -> Protos \cup {Nil}] /\ upval' \in [Closures -> UpVals \cup {Nil}]
    BY <1>1, <1>2, <1>4 DEF Fields
  <2>. QED BY <1>1, <1>2, <1>5, <1>9, <1>12, <2>1 DEF Fields, Entry, tableVars, listVars, phaseVars
<1>14. Chain'
  BY <1>1, <1>2, SameChain DEF phaseVars
<1>15. Gain(C, N)
  <2>1. /\ \A o \in Closures : /\ proto'[o] = proto[o] \/ (o \in C /\ proto'[o] \in N)
                               /\ upval'[o] = upval[o] \/ (o \in C /\ upval'[o] \in N)
        /\ \A o \in Closures \cup Userdata \cup Threads : env'[o] = env[o] \/ (o \in C /\ env'[o] \in N)
    BY <1>1, <1>2, <1>11 DEF Kinds, Fields
  <2>2. \A w \in UpVals : UpValue(w)' = UpValue(w) \/ (w \in C /\ UpValue(w)' \in N)
    <3>. SUFFICES ASSUME NEW w \in UpVals PROVE UpValue(w)' = UpValue(w) \/ (w \in C /\ UpValue(w)' \in N)
      OBVIOUS
    <3>1. CASE place'[w] = place[w]
      BY <1>6, <3>1 DEF Stacks
    <3>2. CASE w = u /\ ~Exists(w)
      <4>1. u # Nil /\ u \in Obj /\ u \in {u} \ {Nil}
        BY <3>2, Distinct DEF Obj
      <4>2. UpValue(w)' \in N
        BY <3>2, <4>1
      <4>. QED BY <1>11, <3>2, <4>1, <4>2
    <3>. QED BY <1>10, <3>1, <3>2
  <2>3. key' = key /\ val' = val /\ meta' = meta /\ callee' = callee /\ k' = k /\ inner' = inner
    BY <1>1 DEF tableVars
  <2>4. Stacks \subseteq C /\ {c} \subseteq N
    OBVIOUS
  <2>. HIDE DEF C, N
  <2>. QED BY <1>5, <2>1, <2>2, <2>3, <2>4, Gains
<1>16. ASSUME NEW o \in B PROVE Refs(o)' \cap Obj \subseteq N
  <2>1. CASE o = c
    BY <1>1, <1>2, <2>1, RefsNext, Distinct DEF RefersTo, Kinds, Fields
  <2>2. CASE o # c
    <3>1. u # Nil /\ o = u /\ u \in UpVals /\ u \in Obj
      BY <1>7, <2>2
    <3>2. \A r \in Refs(o)' : r = UpValue(o)'
      BY <3>1, RefsNext, Distinct DEF RefersTo
    <3>. QED BY <3>1, <3>2
  <2>. QED BY <2>1, <2>2
<1>17. (Roots \cup {running})' = Roots \cup {running}
  BY <1>1, <1>2, KindsAssumption DEF Roots, Kinds
<1>18. Creation({c}, B, C)
  <2>1. B \subseteq Obj /\ \A o \in B : o = c \/ (o = u /\ u # Nil)
    BY <1>2, <1>7
  <2>2. C \subseteq Stacks \cup {o \in Obj : marked'[o] = currentwhite}
    BY <2>1
  <2>3. \A o \in B : \/ marked'[o] = currentwhite /\ (~Exists(o) \/ IsWhite(o))
                     \/ marked'[o] = marked[o] /\ Alive(o)
    BY <1>1, <1>11, <2>1
  <2>4. \A w \in UpVals : \/ place'[w] = place[w]
                          \/ /\ ~Exists(w) /\ marked'[w] = currentwhite
                             /\ place'[w] # Closed /\ Alive(place'[w][1]) /\ place'[w][1] \in Threads
    BY <1>10, <1>11, Distinct DEF Obj
  <2>. HIDE DEF B, C
  <2>. QED BY <1>1, <1>2, <1>11, <1>12, <2>1, <2>2, <2>3, <2>4 DEF Creation, udataVars
<1>19. Discovery(B, C, N)
  <2>1. ASSUME NEW r \in N \cap Obj PROVE r \in B \/ Alive(r)
    <3>1. CASE r \in {c, u}
      BY <3>1, Distinct
    <3>2. CASE r \in {inner[proto[f]], env[f]}
      BY <1>4, <3>2
    <3>3. CASE u # Nil /\ r = UpValue(u)'
      BY <1>8, <3>3
    <3>. QED BY <3>1, <3>2, <3>3, Distinct
  <2>. HIDE DEF B, C, N
  <2>. QED BY <1>1, <1>15, <1>16, <1>17, <2>1 DEF Discovery
<1>20. B \subseteq {c, u} /\ FoundBy(c, u, N)
  <2>1. proto'[c] = inner[proto[f]] /\ env'[c] = env[f]
    BY <1>1, <1>2 DEF Fields, Kinds
  <2>. QED BY <2>1 DEF FoundBy
<1>. HIDE DEF B, C, N
<1>21. HeldInv'
  BY <1>2, <1>13, <1>14, <1>18, <1>19, Creates
<1>. QED BY <1>18, <1>19, <1>20, <1>21

--------------------------------------------------------------------------------
(* markobject: what is marked with the objects of S, and their colours.    *)
LEMMA WithIsRefs ==
  ASSUME Kinds, Fields
  PROVE  /\ \A x \in Userdata \cup UpVals : With(x) = Refs(x)
         /\ \A x \in Userdata : With(x) \subseteq Tables \cup {Nil}
         /\ \A x \in UpVals : With(x) \subseteq Value
<1>1. \A x \in Userdata : With(x) = {meta[x], env[x]} /\ Refs(x) = {meta[x], env[x]}
  BY RefsOf, Distinct DEF RefersTo, With, Obj
<1>2. \A x \in UpVals : With(x) = {UpValue(x)} /\ Refs(x) = {UpValue(x)}
  BY RefsOf, Distinct DEF RefersTo, With, Obj
<1>3. \A x \in UpVals : UpValue(x) \in Value
  BY DEF UpValue, IsOpen, Fields
<1>4. \A x \in Userdata : meta[x] \in Tables \cup {Nil} /\ env[x] \in Tables \cup {Nil}
  BY DEF Kinds
<1>. QED BY <1>1, <1>2, <1>3, <1>4

LEMMA MarkedClosed ==
  ASSUME Kinds, Fields, NEW S
  PROVE  /\ NewlyMarked(S) \subseteq {x \in Obj : IsWhite(x)}
         /\ \A x \in S \cap Obj : IsWhite(x) => x \in NewlyMarked(S)
         /\ \A x \in NewlyMarked(S) \cap (UpVals \cup Userdata) :
              \A r \in Refs(x) \cap Obj : IsWhite(r) => r \in NewlyMarked(S)
         /\ NewlyMarked(S) \cap UpVals \subseteq S
         /\ \A x \in NewlyMarked(S) :
              \/ x \in S
              \/ \E y \in S \cap (UpVals \cup Userdata) : x \in Refs(y)
              \/ \E y \in S \cap UpVals : \E z \in Refs(y) \cap Userdata : x \in Refs(z)
<1>. DEFINE direct == White(S)
            first == White(UNION {With(u) : u \in direct \cap UpVals})
            values == direct \cup first
            second == White(UNION {With(u) : u \in values \cap Userdata})
<1>1. NewlyMarked(S) = values \cup second
  BY DEF NewlyMarked
<1>2. \A x \in direct : x \in S /\ x \in Obj /\ IsWhite(x)
  BY DEF White
<1>3. \A x \in S \cap Obj : IsWhite(x) => x \in direct
  BY DEF White
<1>4. \A x : x \in first <=> x \in Obj /\ IsWhite(x) /\ \E u \in direct \cap UpVals : x \in With(u)
  BY DEF White
<1>. HIDE DEF direct, first
<1>5. \A x : x \in second <=> x \in Obj /\ IsWhite(x) /\ \E u \in values \cap Userdata : x \in With(u)
  BY DEF White
<1>. HIDE DEF second
<1>6. \A x \in first : x \notin UpVals
  BY <1>4, WithIsRefs, Distinct DEF Value, Object
<1>7. \A x \in second : x \notin UpVals \cup Userdata
  BY <1>5, WithIsRefs, Distinct
<1>. DEFINE M == NewlyMarked(S)
<1>8. M = values \cup second
  BY <1>1
<1>. HIDE DEF M
<1>9. M \subseteq {x \in Obj : IsWhite(x)} /\ \A x \in S \cap Obj : IsWhite(x) => x \in M
  BY <1>2, <1>3, <1>4, <1>5, <1>8
<1>10. M \cap UpVals \subseteq direct /\ M \cap Userdata \subseteq values
  BY <1>6, <1>7, <1>8
<1>11. \A x \in M \cap (UpVals \cup Userdata) : \A r \in Refs(x) \cap Obj : IsWhite(r) => r \in M
  <2>1. ASSUME NEW x \in M \cap UpVals, NEW r \in Refs(x) \cap Obj, IsWhite(r) PROVE r \in first
    BY <1>4, <1>10, <2>1, WithIsRefs
  <2>2. ASSUME NEW x \in M \cap Userdata, NEW r \in Refs(x) \cap Obj, IsWhite(r) PROVE r \in second
    BY <1>5, <1>10, <2>2, WithIsRefs
  <2>. QED BY <1>8, <2>1, <2>2
<1>12. \A x \in first : \E y \in S \cap UpVals : x \in Refs(y)
  BY <1>2, <1>4, WithIsRefs
<1>13. \A x \in second : \E z \in values \cap Userdata : x \in Refs(z)
  BY <1>5, WithIsRefs
<1>14. ASSUME NEW x \in M
       PROVE  \/ x \in S
              \/ \E y \in S \cap (UpVals \cup Userdata) : x \in Refs(y)
              \/ \E y \in S \cap UpVals : \E z \in Refs(y) \cap Userdata : x \in Refs(z)
  <2>1. CASE x \in values
    BY <1>2, <1>12, <2>1
  <2>2. CASE x \in second
    BY <1>2, <1>12, <1>13, <2>2
  <2>. QED BY <1>8, <2>1, <2>2
<1>. QED BY <1>2, <1>9, <1>10, <1>11, <1>14 DEF M

LEMMA MarkedAlive ==
  ASSUME Kinds, Fields, HoldsAlive, closing # "closed", NEW S, \A x \in S \cap Obj : Alive(x)
  PROVE  \A x \in NewlyMarked(S) : Alive(x)
<1>1. \A x \in Obj : Alive(x) => \A r \in Refs(x) \cap Obj : Alive(r)
  BY DEF HoldsAlive
<1>2. UpVals \subseteq Obj /\ Userdata \subseteq Obj
  BY DEF Obj
<1>. QED BY <1>1, <1>2, MarkedClosed

(* ... and the colours that makes. *)
Coloured(S, new) ==
  /\ \A o \in Obj \ NewlyMarked(S) : new[o] = marked[o]
  /\ \A o \in NewlyMarked(S) : /\ o \in Obj /\ IsWhite(o) /\ new[o] \in {"gray", "black"}
                               /\ o \in Waiting => new[o] = "gray"
  /\ \A o \in NewlyMarked(S) : new[o] = "black" =>
       o \in Userdata \cup UpVals /\ \A r \in Refs(o) \cap Obj : new[r] \notin Whites
  /\ \A u \in NewlyMarked(S) \cap UpVals : \A r \in Refs(u) \cap Obj : new[r] \notin Whites
  /\ ToTraverse(NewlyMarked(S)) = NewlyMarked(S) \cap Waiting
  /\ \A u \in Userdata : new[u] # "gray"
  /\ \A th \in Threads : new[th] # "black"
  /\ \A u \in UpVals : new[u] # IF IsOpen(u) THEN "black" ELSE "gray"
  /\ \A x \in S \cap Obj : new[x] \notin Whites
  /\ \A x \in Obj : ~IsWhite(x) => new[x] = marked[x] /\ new[x] \notin Whites

LEMMA MarkingOf ==
  ASSUME Kinds, Fields, Colouring, NEW S, NEW new, new = Marking(marked, NewlyMarked(S))
  PROVE  Coloured(S, new)
<1>. DEFINE M == NewlyMarked(S)
<1>1. /\ M \subseteq {x \in Obj : IsWhite(x)}
      /\ \A x \in S \cap Obj : IsWhite(x) => x \in M
      /\ \A x \in M \cap (UpVals \cup Userdata) : \A r \in Refs(x) \cap Obj : IsWhite(r) => r \in M
      /\ new = Marking(marked, M)
  BY MarkedClosed
<1>. HIDE DEF M
<1>2. /\ \A o \in Obj \ M : new[o] = marked[o]
      /\ \A o \in M : new[o] = ColourOf(o)
  BY <1>1 DEF Marking
<1>3. /\ \A o \in M : new[o] \in {"gray", "black"} /\ (o \in Waiting => new[o] = "gray")
      /\ \A o \in M : new[o] = "black" => o \in Userdata \cup UpVals
      /\ ToTraverse(M) = M \cap Waiting
  BY <1>1, <1>2, Distinct DEF ColourOf, Waiting, ToTraverse
<1>4. /\ \A u \in Userdata : new[u] # "gray"
      /\ \A th \in Threads : new[th] # "black"
  BY <1>2, Distinct DEF ColourOf, Colouring, Obj, IsBlack
<1>5. \A u \in UpVals : new[u] # IF IsOpen(u) THEN "black" ELSE "gray"
  BY <1>2, Distinct DEF ColourOf, Colouring, Obj, IsBlack
<1>6. \A x \in Obj : (IsWhite(x) => x \in M) => new[x] \notin Whites
  BY <1>1, <1>2, <1>3, WhitesAssumption DEF IsWhite
<1>7. \A x \in Obj : ~IsWhite(x) => new[x] = marked[x] /\ new[x] \notin Whites
  BY <1>1, <1>2, <1>6
<1>8. \A o \in M : new[o] = "black" => o \in Userdata \cup UpVals /\ \A r \in Refs(o) \cap Obj : new[r] \notin Whites
  BY <1>1, <1>3, <1>6
<1>9. \A u \in M \cap UpVals : \A r \in Refs(u) \cap Obj : new[r] \notin Whites
  BY <1>1, <1>6
<1>. QED BY <1>1, <1>2, <1>3, <1>4, <1>5, <1>6, <1>7, <1>8, <1>9 DEF M, Coloured

--------------------------------------------------------------------------------
(* The barriers: no black object is left with a reference to a white one.  *)
LEMMA Stores ==
  ASSUME HeldInv, IInv, Kinds', Fields', Chain', NEW C, NEW N,
         Recolours, Barriers(C), Colouring', SweepList',
         Gain(C, N), \A r \in N \cap Obj : Alive(r),
         \A o \in Obj : Alive(o)' => Alive(o),
         (Roots \cup {running})' \cap Obj \subseteq Roots \cup {running} \cup N,
         \A th \in Threads : callee'[th] # Nil => callee'[th] = callee[th] \/ th = running
  PROVE  HeldInv'
<1>1. Kinds
  BY DEF IInv
<1>2. \A o \in Obj : Alive(o) => Alive(o)'
  BY <1>1, StaysAlive
<1>3. Finds(C, N, {})
  BY <1>2 DEF Finds
<1>. QED BY <1>3, Operates

LEMMA ForwardHeld ==
  ASSUME HeldInv, IInv, Operation, NEW o \in Obj, NEW v \in Value, v \in Obj => Alive(v),
         NEW C, C \subseteq {o} \cup Stacks, Gain(C, {v}), BarrierForward(marked, o, v),
         UNCHANGED <<place, grayagain, weak, sweepVars, tmudata, phaseVars>>
  PROVE  /\ Recolours /\ Barriers(C) /\ Colouring' /\ SweepList'
         /\ \A x \in Obj : Alive(x)' => Alive(x)
<1>. DEFINE M == NewlyMarked({v})
<1>1. /\ Kinds /\ Fields /\ Colouring /\ SweepList /\ HoldsAlive /\ closing # "closed"
      /\ gcstate \notin atomicStates /\ v \notin UpVals /\ otherwhite' = otherwhite
  <2>1. v \notin UpVals
    BY Distinct DEF Value, Object, Obj
  <2>. QED BY <2>1 DEF HeldInv, IInv, Operation, ScriptsRun, otherwhite, phaseVars
<1>2. CASE v \in Obj /\ IsWhite(v) /\ marked[o] = "black" /\ gcstate = "propagate"
  <2>1. marked' = Marking(marked, M) /\ gray' = gray \cup ToTraverse(M)
    BY <1>2 DEF BarrierForward
  <2>2. /\ \A x \in Obj \ M : marked'[x] = marked[x]
        /\ \A x \in M : /\ x \in Obj /\ IsWhite(x) /\ marked'[x] \in {"gray", "black"}
                        /\ x \in Waiting => marked'[x] = "gray"
        /\ \A x \in M : marked'[x] = "black" =>
             x \in Userdata \cup UpVals /\ \A r \in Refs(x) \cap Obj : marked'[r] \notin Whites
        /\ ToTraverse(M) = M \cap Waiting
        /\ \A u \in Userdata : marked'[u] # "gray"
        /\ \A th \in Threads : marked'[th] # "black"
        /\ \A u \in UpVals : marked'[u] # IF IsOpen(u) THEN "black" ELSE "gray"
        /\ marked'[v] \notin Whites
        /\ \A x \in Obj : ~IsWhite(x) => marked'[x] = marked[x] /\ marked'[x] \notin Whites
    <3>1. Coloured({v}, marked')
      BY <1>1, <2>1, MarkingOf
    <3>. QED BY <1>2, <3>1 DEF Coloured
  <2>3. M \cap UpVals = {} /\ \A x \in M : Alive(x)
    BY <1>1, MarkedClosed, MarkedAlive
  <2>. HIDE DEF M
  <2>4. \A x \in Obj : /\ marked'[x] = "free" <=> marked[x] = "free"
                       /\ marked'[x] = marked[x] \/ marked'[x] \in {"gray", "black"}
                       /\ IsWhite(x)' <=> marked'[x] \in Whites
    BY <2>2, WhitesAssumption DEF IsWhite
  <2>5. Recolours
    BY <1>1, <1>2, <2>4 DEF Recolours, phaseVars, sweepVars
  <2>6. Colouring'
    <3>1. \A u \in UpVals : /\ u \in Obj /\ (IsOpen(u)' <=> IsOpen(u)) /\ place'[u] = place[u]
                            /\ IsOpen(u) => place[u][1] \in Obj
      BY <1>1 DEF IsOpen, Obj, Fields
    <3>. QED BY <1>1, <2>2, <2>4, <3>1 DEF Colouring, IsBlack, Exists
  <2>7. SweepList'
    BY <1>1, <2>4 DEF SweepList, Exists, IsOpen, sweepVars, phaseVars, Fields
  <2>8. \A x \in Obj : Alive(x)' => Alive(x)
    BY <1>1, <2>2, <2>3 DEF Alive, IsGarbage, IsDead, Exists
  <2>9. Barriers(C)
    <3>. SUFFICES ASSUME closing = "no" PROVE Barriers(C)
      BY DEF Barriers, Marks
    <3>1. \A x \in Obj : Exists(x) /\ ~IsWhite(x) => marked'[x] \in {"gray", "black"}
      BY <1>1, <2>2 DEF Exists, Kinds, Colours, IsWhite
    <3>2. ASSUME NEW x \in Obj \ tmudata, marked'[x] = "black", x \in C \/ ~IsBlack(x)
          PROVE  Shaded(Refs(x))'
      <4>1. CASE x \in M
        <5>1. x # o /\ x \notin Stacks
          BY <1>2, <2>2, <2>3, <3>2, <4>1, WhitesAssumption DEF Stacks, IsWhite
        <5>2. Refs(x)' \subseteq Refs(x)
          BY <5>1 DEF Gain
        <5>. QED BY <2>2, <2>4, <3>2, <4>1, <5>2 DEF Shaded
      <4>2. CASE x \notin M
        <5>1. marked[x] = "black" /\ x \in C
          BY <2>2, <3>2, <4>2 DEF IsBlack
        <5>2. x = o
          BY <1>1, <5>1 DEF Colouring, Stacks, IsBlack
        <5>3. \A r \in Refs(x) \cap Obj : ~IsWhite(r)
          BY <1>2, <3>2, <5>1 DEF HeldInv, Marked, Marks, Shaded, IsBlack
        <5>4. \A r \in Refs(x)' : r \in Refs(x) \/ r = v
          BY DEF Gain
        <5>. QED BY <1>2, <2>2, <2>4, <5>3, <5>4 DEF Shaded
      <4>. QED BY <4>1, <4>2
    <3>3. /\ \A x \in Waiting : marked'[x] = "gray" => marked[x] = "gray" \/ x \in gray' \cup grayagain'
          /\ gray \subseteq gray' /\ grayagain \subseteq grayagain' /\ weak' = weak
      BY <2>1, <2>2 DEF Waiting, Obj
    <3>. QED BY <3>1, <3>2, <3>3 DEF Barriers
  <2>. QED BY <2>5, <2>6, <2>7, <2>8, <2>9
<1>3. CASE ~(v \in Obj /\ IsWhite(v) /\ marked[o] = "black" /\ gcstate = "propagate")
  <2>1. /\ gray' = gray
        /\ marked' = marked \/ (marked' = Whitened(marked, {o}) /\ marked[o] = "black" /\ gcstate # "propagate")
    BY <1>3 DEF BarrierForward
  <2>2. /\ \A x \in Obj \ {o} : marked'[x] = marked[x]
        /\ \/ marked'[o] = marked[o]
           \/ marked[o] = "black" /\ marked'[o] = currentwhite /\ gcstate # "propagate"
    BY <2>1 DEF Whitened
  <2>3. currentwhite # "free" /\ currentwhite \notin {"gray", "black", "free"}
    BY <1>1, WhitesAssumption DEF Kinds
  <2>4. Recolours
    BY <1>1, <2>2, <2>3 DEF Recolours, phaseVars, sweepVars
  <2>5. Colouring'
    <3>1. \A u \in UpVals : /\ u \in Obj /\ (IsOpen(u)' <=> IsOpen(u)) /\ place'[u] = place[u]
                            /\ IsOpen(u) => place[u][1] \in Obj
      BY <1>1 DEF IsOpen, Obj, Fields
    <3>. QED BY <1>1, <2>2, <2>3, <3>1 DEF Colouring, IsBlack, Exists, Obj
  <2>6. SweepList'
    BY <1>1, <2>2, <2>3 DEF SweepList, Exists, IsOpen, sweepVars, phaseVars, Fields
  <2>7. \A x \in Obj : Alive(x)' => Alive(x)
    BY <1>1, <2>2, TwoWhites DEF Alive, IsGarbage, IsDead, Exists, Kinds
  <2>8. Barriers(C)
    <3>. SUFFICES ASSUME closing = "no", gcstate = "propagate" PROVE Barriers(C)
      BY <1>1 DEF Barriers, Marks
    <3>1. marked' = marked
      BY <2>1
    <3>2. ASSUME NEW x \in Obj \ tmudata, marked'[x] = "black", x \in C
          PROVE  Shaded(Refs(x))'
      <4>1. x = o
        BY <1>1, <3>1, <3>2 DEF Colouring, Stacks, IsBlack
      <4>2. \A r \in Refs(x) \cap Obj : ~IsWhite(r)
        BY <3>1, <3>2 DEF HeldInv, Marked, Marks, Shaded, IsBlack
      <4>3. \A r \in Refs(x)' : r \in Refs(x) \/ r = v
        BY DEF Gain
      <4>4. v \in Obj => ~IsWhite(v)
        BY <1>3, <3>1, <3>2, <4>1
      <4>. QED BY <3>1, <4>2, <4>3, <4>4 DEF Shaded, IsWhite
    <3>3. \A x \in Obj : Exists(x) /\ ~IsWhite(x) => marked'[x] \in {"gray", "black"}
      BY <1>1, <3>1 DEF Exists, Kinds, Colours, IsWhite
    <3>. QED BY <2>1, <3>1, <3>2, <3>3 DEF Barriers, IsBlack
  <2>. QED BY <2>4, <2>5, <2>6, <2>7, <2>8
<1>. QED BY <1>2, <1>3

LEMMA BackHeld ==
  ASSUME HeldInv, IInv, Operation, NEW t \in Tables, NEW N,
         Gain({t}, N), BarrierBack(t, N),
         UNCHANGED <<place, gray, weak, sweepVars, tmudata, phaseVars>>
  PROVE  /\ Recolours /\ Barriers({t}) /\ Colouring' /\ SweepList'
         /\ \A x \in Obj : Alive(x)' => Alive(x)
<1>1. /\ Kinds /\ Fields /\ Colouring /\ SweepList /\ closing # "closed"
      /\ gcstate \notin atomicStates /\ otherwhite' = otherwhite /\ t \in Obj
      /\ t \notin Userdata \cup UpVals \cup Threads /\ currentwhite \notin {"gray", "black", "free"}
  BY Distinct, WhitesAssumption DEF HeldInv, IInv, Operation, ScriptsRun, otherwhite, phaseVars, Kinds, Obj
<1>2. /\ grayagain \subseteq grayagain'
      /\ \A x \in Obj \ {t} : marked'[x] = marked[x]
      /\ \/ marked'[t] = marked[t] /\ (marked[t] = "black" => White(N) = {})
         \/ marked[t] = "black" /\ marked'[t] = "gray" /\ t \in grayagain'
  BY <1>1 DEF BarrierBack, Kinds, IsBlack
<1>3. Recolours
  BY <1>1, <1>2 DEF Recolours, phaseVars, sweepVars
<1>4. Colouring'
  <2>1. \A u \in UpVals : /\ u \in Obj /\ (IsOpen(u)' <=> IsOpen(u)) /\ place'[u] = place[u]
                          /\ IsOpen(u) => place[u][1] \in Obj
    BY <1>1 DEF IsOpen, Obj, Fields
  <2>. QED BY <1>1, <1>2, <2>1 DEF Colouring, IsBlack, Exists, Obj
<1>5. SweepList'
  BY <1>1, <1>2 DEF SweepList, Exists, IsOpen, sweepVars, phaseVars, Fields
<1>6. \A x \in Obj : Alive(x)' => Alive(x)
  BY <1>1, <1>2, TwoWhites DEF Alive, IsGarbage, IsDead, Exists, Kinds
<1>7. Barriers({t})
  <2>. SUFFICES ASSUME closing = "no", gcstate = "propagate" PROVE Barriers({t})
    BY <1>1 DEF Barriers, Marks
  <2>1. \A x \in Obj : Exists(x) /\ ~IsWhite(x) => marked'[x] \in {"gray", "black"}
    BY <1>1, <1>2 DEF Exists, Kinds, Colours, IsWhite
  <2>2. \A x \in Obj : IsWhite(x)' => IsWhite(x)
    BY <1>2, WhitesAssumption DEF IsWhite
  <2>3. ASSUME marked'[t] = "black", t \notin tmudata PROVE Shaded(Refs(t))'
    <3>1. \A r \in Refs(t) \cap Obj : ~IsWhite(r)
      BY <1>1, <1>2, <2>3 DEF HeldInv, Marked, Marks, Shaded, IsBlack
    <3>2. \A r \in N \cap Obj : ~IsWhite(r)
      BY <1>2, <2>3 DEF White
    <3>3. \A r \in Refs(t)' \cap Obj : r \in Refs(t) \/ r \in N
      BY <1>1 DEF Gain
    <3>. QED BY <2>2, <3>1, <3>2, <3>3 DEF Shaded
  <2>4. /\ \A x \in Obj \ tmudata : marked'[x] = "black" /\ (x \in {t} \/ ~IsBlack(x)) => x = t
        /\ \A x \in Waiting : marked'[x] = "gray" => marked[x] = "gray" \/ x \in gray' \cup grayagain'
    BY <1>2 DEF IsBlack, Waiting, Obj
  <2>. QED BY <1>2, <2>1, <2>3, <2>4 DEF Barriers
<1>. QED BY <1>3, <1>4, <1>5, <1>6, <1>7

LEMMA HeldSetTable ==
  ASSUME HeldInv, IInv, IInv', NEW t \in Tables, NEW n \in Node, NEW kk \in OnStack \cup {Number},
         NEW v \in Loadable, SetTable(t, n, kk, v)
  PROVE  /\ HeldInv'
         /\ Gain({t}, {kk, v})
<1>. DEFINE N == IF Entry(t, n) THEN {v} ELSE {kk, v}
<1>1. /\ Operation /\ kk \in Loadable \cup {Number}
      /\ Entry(t, n) => key[t][n] = kk
      /\ key' = [key EXCEPT ![t][n] = kk]
      /\ val' = [val EXCEPT ![t][n] = v]
      /\ BarrierBack(t, N)
      /\ UNCHANGED <<meta, env, closureVars, threadVars, upvalVars, mt, gray, weak,
                     sweepVars, udataVars, phaseVars, totalbytes>>
  BY DEF SetTable
<1>2. /\ Kinds /\ Kinds' /\ Fields /\ Chain /\ v \in Value /\ kk \in Value
      /\ v \in Obj => Alive(v)
      /\ kk \in Obj => Alive(kk)
  BY <1>1, LoadableAlive, Distinct DEF HeldInv, IInv, Operation, ScriptsRun, Value
<1>3. \A r \in N \cap Obj : Alive(r)
  BY <1>2
<1>4. /\ \A x \in Tables \ {t} : val'[x] = val[x] /\ key'[x] = key[x]
      /\ \A m \in Node : /\ val'[t][m] = IF m = n THEN v ELSE val[t][m]
                         /\ key'[t][m] = IF m = n THEN kk ELSE key[t][m]
      /\ key' \in [Tables -> [Node -> Value \cup {DeadKey}]] /\ val' \in [Tables -> [Node -> Value]]
  BY <1>1, <1>2 DEF Fields
<1>5. \A m \in Node : /\ val'[t][m] = val[t][m] \/ val'[t][m] \in N
                      /\ val'[t][m] # Nil => \/ val[t][m] # Nil /\ key'[t][m] = key[t][m]
                                             \/ key'[t][m] \in N
  BY <1>1, <1>4 DEF Entry
<1>. HIDE DEF N
<1>6. grayagain' \subseteq Tables \cup Threads
  BY <1>1, <1>2 DEF BarrierBack, Fields
<1>7. Fields'
  <2>1. \A x \in Tables, m \in Node : Entry(x, m)' => key'[x][m] \in Value
    <3>1. \A x \in Tables, m \in Node : val[x][m] # Nil => key[x][m] \in Value
      BY <1>2 DEF Fields, Entry
    <3>2. \A m \in Node : val'[t][m] # Nil => key'[t][m] \in Value
      BY <1>1, <1>2, <1>4, <3>1 DEF Entry
    <3>3. \A x \in Tables \ {t}, m \in Node : val'[x][m] # Nil => key'[x][m] \in Value
      BY <1>4, <3>1
    <3>. QED BY <3>2, <3>3 DEF Entry
  <2>. QED BY <1>1, <1>2, <1>4, <1>6, <2>1
       DEF Fields, closureVars, threadVars, upvalVars, sweepVars, phaseVars
<1>8. Chain'
  BY <1>1, <1>2, SameChain DEF phaseVars, threadVars
<1>9. Gain({t}, N)
  <2>1. /\ meta' = meta /\ env' = env /\ proto' = proto /\ upval' = upval /\ k' = k /\ inner' = inner
        /\ callee' = callee /\ stack' = stack /\ \A u \in UpVals : UpValue(u)' = UpValue(u)
    BY <1>1 DEF closureVars, threadVars, upvalVars, UpValue, IsOpen
  <2>2. \A x \in Tables, m \in Node :
          /\ val'[x][m] = val[x][m] \/ (x \in {t} /\ val'[x][m] \in N)
          /\ val'[x][m] # Nil => \/ val[x][m] # Nil /\ key'[x][m] = key[x][m]
                                 \/ x \in {t} /\ key'[x][m] \in N
    BY <1>4, <1>5
  <2>. QED BY <2>1, <2>2, Gains
<1>10. /\ Recolours /\ Barriers({t}) /\ Colouring' /\ SweepList'
       /\ \A x \in Obj : Alive(x)' => Alive(x)
  BY <1>1, <1>9, BackHeld DEF upvalVars, udataVars
<1>11. Gain({t}, {kk, v})
  BY <1>9 DEF Gain, N
<1>. QED BY <1>1, <1>2, <1>3, <1>7, <1>8, <1>9, <1>10, <1>11, Stores DEF Roots, threadVars

LEMMA HeldSetMetatable ==
  ASSUME HeldInv, IInv, IInv', NEW o \in Tables \cup Userdata, NEW m \in Tables \cup {Nil},
         SetMetatable(o, m)
  PROVE  /\ HeldInv'
         /\ Gain({o}, {m})
<1>1. /\ Operation /\ m \in Loadable
      /\ meta' = [meta EXCEPT ![o] = m]
      /\ UNCHANGED <<key, val, env, closureVars, threadVars, upvalVars, mt, weak,
                     sweepVars, udataVars, phaseVars, totalbytes>>
      /\ \/ o \in Tables /\ BarrierBack(o, {m}) /\ UNCHANGED gray
         \/ o \in Userdata /\ BarrierForward(marked, o, m) /\ UNCHANGED grayagain
  BY DEF SetMetatable
<1>2. /\ Kinds /\ Kinds' /\ Fields /\ Chain /\ m \in Value /\ o \in Obj
      /\ m \in Obj => Alive(m)
  BY <1>1, LoadableAlive DEF HeldInv, IInv, Operation, ScriptsRun, Obj
<1>3. grayagain' \subseteq Tables \cup Threads
  BY <1>1, <1>2 DEF BarrierBack, Fields
<1>4. Fields'
  BY <1>1, <1>2, <1>3 DEF Fields, Entry, closureVars, threadVars, upvalVars, sweepVars, phaseVars
<1>5. Chain'
  BY <1>1, <1>2, SameChain DEF phaseVars, threadVars
<1>6. Gain({o}, {m})
  <2>1. /\ key' = key /\ val' = val /\ env' = env /\ proto' = proto /\ upval' = upval /\ k' = k /\ inner' = inner
        /\ callee' = callee /\ stack' = stack /\ \A u \in UpVals : UpValue(u)' = UpValue(u)
    BY <1>1 DEF closureVars, threadVars, upvalVars, UpValue, IsOpen
  <2>2. \A x \in Tables \cup Userdata : meta'[x] = meta[x] \/ (x \in {o} /\ meta'[x] \in {m})
    BY <1>1, <1>2 DEF Kinds
  <2>. QED BY <2>1, <2>2, Gains
<1>7. /\ Recolours /\ Barriers({o}) /\ Colouring' /\ SweepList'
      /\ \A x \in Obj : Alive(x)' => Alive(x)
  <2>1. CASE o \in Tables /\ BarrierBack(o, {m}) /\ UNCHANGED gray
    BY <1>1, <1>6, <2>1, BackHeld DEF upvalVars, udataVars
  <2>2. CASE o \in Userdata /\ BarrierForward(marked, o, m) /\ UNCHANGED grayagain
    BY <1>1, <1>2, <1>6, <2>2, ForwardHeld DEF upvalVars, udataVars
  <2>. QED BY <1>1, <2>1, <2>2
<1>. QED BY <1>1, <1>2, <1>4, <1>5, <1>6, <1>7, Stores DEF Roots, threadVars

LEMMA HeldSetEnv ==
  ASSUME HeldInv, IInv, IInv', NEW o \in Closures \cup Userdata \cup Threads, NEW t \in Tables,
         SetEnv(o, t)
  PROVE  /\ HeldInv'
         /\ Gain({o}, {t})
<1>1. /\ Operation /\ t \in Loadable
      /\ env' = [env EXCEPT ![o] = t] /\ BarrierForward(marked, o, t)
      /\ UNCHANGED <<tableVars, closureVars, threadVars, upvalVars, mt, grayagain,
                     weak, sweepVars, udataVars, phaseVars, totalbytes>>
  BY DEF SetEnv
<1>2. /\ Kinds /\ Kinds' /\ Fields /\ Chain /\ t \in Value /\ o \in Obj
      /\ t \in Obj => Alive(t)
  BY <1>1, LoadableAlive DEF HeldInv, IInv, Operation, ScriptsRun, Obj
<1>3. Fields' /\ Chain'
  BY <1>1, <1>2, SameChain
     DEF Fields, Entry, tableVars, closureVars, threadVars, upvalVars, sweepVars, phaseVars
<1>4. \A x \in Closures \cup Userdata \cup Threads : env'[x] = env[x] \/ (x \in {o} /\ env'[x] \in {t})
  BY <1>1, <1>2 DEF Kinds
<1>5. Gain({o}, {t})
  <2>1. /\ key' = key /\ val' = val /\ meta' = meta /\ proto' = proto /\ upval' = upval /\ k' = k /\ inner' = inner
        /\ callee' = callee /\ stack' = stack /\ \A u \in UpVals : UpValue(u)' = UpValue(u)
    BY <1>1 DEF tableVars, closureVars, threadVars, upvalVars, UpValue, IsOpen
  <2>. QED BY <1>4, <2>1, Gains
<1>6. /\ Recolours /\ Barriers({o}) /\ Colouring' /\ SweepList'
      /\ \A x \in Obj : Alive(x)' => Alive(x)
  BY <1>1, <1>2, <1>5, ForwardHeld DEF upvalVars, udataVars
<1>7. (Roots \cup {running})' \cap Obj \subseteq Roots \cup {running} \cup {t}
  BY <1>1, <1>4, KindsAssumption DEF Roots, threadVars
<1>. QED BY <1>1, <1>2, <1>3, <1>5, <1>6, <1>7, Stores DEF threadVars

LEMMA HeldSetUpVal ==
  ASSUME HeldInv, IInv, IInv', NEW c \in Closures, NEW v \in Loadable, SetUpVal(c, v)
  PROVE  /\ HeldInv'
         /\ Gain(Stacks \cup {upval[c]}, {v})
<1>. DEFINE uv == upval[c]
            C == Stacks \cup {uv}
<1>1. /\ Operation /\ uv # Nil /\ BarrierForward(marked, uv, v)
      /\ UNCHANGED <<tableVars, env, closureVars, callee, running, place, mt, grayagain,
                     weak, sweepVars, udataVars, phaseVars, totalbytes>>
      /\ IF IsOpen(uv)
         THEN stack' = [stack EXCEPT ![place[uv][1]][place[uv][2]] = v] /\ UNCHANGED value
         ELSE value' = [value EXCEPT ![uv] = v] /\ UNCHANGED stack
  BY DEF SetUpVal
<1>2. /\ Kinds /\ Kinds' /\ Fields /\ Chain /\ v \in Value /\ uv \in UpVals /\ uv \in Obj
      /\ v \in Obj => Alive(v)
  BY <1>1, LoadableAlive DEF HeldInv, IInv, Operation, ScriptsRun, Obj, Fields
<1>. HIDE DEF uv
<1>3. /\ \A th \in Threads, m \in Level :
            stack'[th][m] = stack[th][m] \/ (th \in C /\ stack'[th][m] \in {v})
      /\ stack' \in [Threads -> [Level -> Value]]
  <2>1. CASE IsOpen(uv)
    <3>1. place[uv][1] \in Threads /\ place[uv][2] \in Level
      BY <1>2, <2>1 DEF Fields, IsOpen
    <3>. DEFINE a == place[uv][1]
                b == place[uv][2]
    <3>2. stack' = [stack EXCEPT ![a][b] = v] /\ a \in Threads /\ b \in Level
      BY <1>1, <2>1, <3>1
    <3>. HIDE DEF a, b
    <3>. QED BY <1>2, <3>2 DEF Fields, Stacks
  <2>2. CASE ~IsOpen(uv)
    BY <1>1, <1>2, <2>2 DEF Fields
  <2>. QED BY <2>1, <2>2
<1>4. value' \in [UpVals -> Value] /\ \A u \in UpVals : (u = uv /\ ~IsOpen(u)) \/ value'[u] = value[u]
  BY <1>1, <1>2 DEF Fields
<1>5. \A u \in UpVals : UpValue(u)' = UpValue(u) \/ (u \in C /\ UpValue(u)' \in {v})
  <2>. SUFFICES ASSUME NEW u \in UpVals PROVE UpValue(u)' = UpValue(u) \/ (u \in C /\ UpValue(u)' \in {v})
    OBVIOUS
  <2>1. CASE IsOpen(u)
    <3>1. place[u][1] \in Threads /\ place[u][2] \in Level
      BY <1>2, <2>1 DEF Fields, IsOpen
    <3>. QED BY <1>1, <1>3, <2>1, <3>1 DEF UpValue, IsOpen, Stacks
  <2>2. CASE ~IsOpen(u)
    <3>1. UpValue(u)' = value'[u] /\ UpValue(u) = value[u]
      BY <1>1, <2>2 DEF UpValue, IsOpen
    <3>2. u = uv => value'[u] = v
      BY <1>1, <1>2, <2>2 DEF Fields
    <3>. QED BY <1>4, <3>1, <3>2
  <2>. QED BY <2>1, <2>2
<1>6. Fields'
  BY <1>1, <1>2, <1>3, <1>4 DEF Fields, Entry, tableVars, closureVars, sweepVars, phaseVars
<1>7. Chain'
  BY <1>1, <1>2, SameChain DEF phaseVars
<1>8. Gain(C, {v})
  <2>1. /\ key' = key /\ val' = val /\ meta' = meta /\ proto' = proto /\ upval' = upval /\ k' = k /\ inner' = inner
        /\ callee' = callee /\ env' = env
    BY <1>1 DEF tableVars, closureVars
  <2>. HIDE DEF C
  <2>. QED BY <1>3, <1>5, <2>1, Gains
<1>9. /\ Recolours /\ Barriers(C) /\ Colouring' /\ SweepList'
      /\ \A x \in Obj : Alive(x)' => Alive(x)
  <2>1. C \subseteq {uv} \cup Stacks
    OBVIOUS
  <2>. HIDE DEF C
  <2>. QED BY <1>1, <1>2, <1>8, <2>1, ForwardHeld DEF udataVars
<1>. HIDE DEF C
<1>. QED BY <1>1, <1>2, <1>6, <1>7, <1>8, <1>9, Stores DEF Roots, C, uv

--------------------------------------------------------------------------------
(* luaF_close: colours; values are where they were, though not on a stack. *)
LEMMA Shuts ==
  ASSUME HeldInv, IInv, closing # "closed", NEW S \in SUBSET UpVals, \A u \in S : IsOpen(u), Close(S),
         UNCHANGED <<currentwhite, gcstate>>
  PROVE  /\ Colouring'
         /\ \A o \in Obj : Alive(o)' <=> Alive(o)
         /\ \A o \in Obj : \/ marked'[o] \in {marked[o], "gray", "black", currentwhite}
                           \/ marked'[o] = "free" /\ IsDead(o) /\ o \in S
         /\ gcstate # "propagate" =>
              \A o \in Obj : marked'[o] \notin {"free", currentwhite} => marked'[o] = marked[o] /\ o \notin S
         /\ gcstate = "propagate" =>
              /\ \A o \in Obj : Exists(o) /\ ~IsWhite(o) => marked'[o] \in {"gray", "black"}
              /\ \A o \in Obj : marked'[o] = "black" /\ ~IsBlack(o) =>
                   o \in Userdata \cup UpVals /\ \A r \in Refs(o) \cap Obj : marked'[r] \notin Whites
              /\ \A o \in Waiting : marked'[o] = "gray" => marked[o] = "gray" \/ o \in gray'
         /\ gray \subseteq gray' /\ gray' \subseteq Waiting
<1>. DEFINE dead == {u \in S : IsDead(u)}
            grays == {u \in S : marked[u] = "gray"}
            V == {UpValue(u) : u \in grays}
            M == IF gcstate = "propagate" THEN NewlyMarked(V) ELSE {}
            new == Marking(marked, NewlyMarked(V))
<1>1. /\ \A o \in Obj : marked'[o] = IF o \in dead THEN "free"
                                     ELSE IF o \in M THEN ColourOf(o)
                                     ELSE IF o \notin grays THEN marked[o]
                                     ELSE IF gcstate = "propagate" THEN "black"
                                     ELSE currentwhite
      /\ gray' = gray \cup ToTraverse(M)
      /\ place' = [u \in UpVals |-> IF u \in S THEN Closed ELSE place[u]]
  BY DEF Close
<1>2. /\ Kinds /\ Fields /\ Colouring /\ HoldsAlive /\ S \subseteq Obj /\ otherwhite' = otherwhite
      /\ {currentwhite, otherwhite} \cap {"gray", "black", "free"} = {}
      /\ Whites = {currentwhite, otherwhite} /\ otherwhite # currentwhite
  BY TwoWhites DEF HeldInv, IInv, Obj, Kinds, otherwhite
<1>3. \A u \in grays : Refs(u) = {UpValue(u)} /\ Alive(u) /\ UpValue(u) \in V /\ UpValue(u) \in Value
  BY <1>2, WithIsRefs, LiveOnes, Distinct DEF With
<1>4. \A v \in V : v \in Value /\ v \notin UpVals /\ (v \in Obj => Alive(v))
  BY <1>2, <1>3, Distinct DEF HoldsAlive, Value, Object, Obj
<1>5. /\ Coloured(V, new) /\ \A x \in NewlyMarked(V) : Alive(x)
      /\ NewlyMarked(V) \cap UpVals \subseteq V
  BY <1>2, <1>4, MarkingOf, MarkedAlive, MarkedClosed
<1>6. NewlyMarked(V) \cap UpVals = {} /\ \A o \in NewlyMarked(V) : new[o] = ColourOf(o) /\ o \in Obj
  BY <1>4, <1>5 DEF Marking, Coloured
<1>7. \A u \in S : marked[u] \in {"gray", currentwhite, otherwhite} /\ u \in UpVals /\ IsOpen(u)
  BY <1>2, LiveOnes DEF Colouring, IsBlack, Exists
<1>8. /\ dead \subseteq S /\ grays \subseteq S /\ dead \cap grays = {}
      /\ \A u \in dead : marked[u] = otherwhite
      /\ \A u \in S : u \notin dead \cup grays => marked[u] = currentwhite
  BY <1>2, <1>7 DEF IsDead
<1>9. \A o \in Obj \ S : marked'[o] = IF o \in M THEN ColourOf(o) ELSE marked[o]
  BY <1>1, <1>8
<1>10. \A u \in S : marked'[u] = IF u \in dead THEN "free"
                                 ELSE IF u \in grays /\ gcstate = "propagate" THEN "black"
                                 ELSE currentwhite
  BY <1>1, <1>2, <1>6, <1>7, <1>8
<1>11. \A u \in grays : marked[u] = "gray"
  OBVIOUS
<1>. HIDE DEF dead, grays, V, new
<1>12. CASE gcstate = "propagate"
  <2>1. \A o \in Obj \ S : marked'[o] = new[o]
    BY <1>5, <1>6, <1>9, <1>12 DEF Coloured
  <2>2. /\ \A u \in Userdata : marked'[u] # "gray"
        /\ \A th \in Threads : marked'[th] # "black"
        /\ \A u \in UpVals \ S : marked'[u] = marked[u] /\ place'[u] = place[u]
        /\ \A u \in S : marked'[u] # "gray" /\ place'[u] = Closed
        /\ \A o \in Obj \ S : marked'[o] = "free" <=> marked[o] = "free"
    <3>1. \A o \in Userdata \cup Threads : o \in Obj /\ o \notin S
      BY Distinct DEF Obj
    <3>2. \A u \in UpVals \ S : new[u] = marked[u] /\ u \in Obj
      BY <1>5, <1>6 DEF Coloured, Obj
    <3>3. \A o \in Obj : new[o] = "free" <=> marked[o] = "free"
      BY <1>2, <1>5 DEF Coloured, IsWhite
    <3>. QED BY <1>1, <1>2, <1>5, <1>10, <2>1, <3>1, <3>2, <3>3 DEF Coloured
  <2>3. Colouring'
    <3>1. \A u \in UpVals : IsOpen(u) => place[u][1] \in Obj \ S
      BY <1>2, Distinct DEF Fields, IsOpen, Obj
    <3>. QED BY <1>2, <2>2, <3>1 DEF Colouring, IsOpen, IsBlack, Exists
  <2>4. \A o \in Obj : Alive(o)' <=> Alive(o)
    <3>1. \A o \in Obj \ S : Alive(o)' <=> Alive(o)
      <4>1. \A o \in Obj : o \notin NewlyMarked(V) => new[o] = marked[o]
        BY <1>5 DEF Coloured
      <4>2. \A o \in NewlyMarked(V) : new[o] \in {"gray", "black"} /\ Alive(o) /\ o \in Obj
        BY <1>5 DEF Coloured
      <4>. QED BY <1>2, <2>1, <4>1, <4>2 DEF Alive, IsGarbage, IsDead, Exists
    <3>2. \A u \in S : Alive(u)' <=> Alive(u)
      <4>1. \A u \in S : u \notin Fixed \cup {mainthread}
        BY <1>2, LiveOnes
      <4>2. \A u \in S : /\ Alive(u) <=> u \notin dead
                         /\ Alive(u)' <=> u \notin dead
        <5>1. \A u \in S : /\ marked[u] # "free" /\ (marked[u] = otherwhite <=> u \in dead)
                           /\ marked'[u] = "free" <=> u \in dead
                           /\ marked'[u] # otherwhite
          <6>1. /\ \A x \in {"free", "gray", "black"} : x # otherwhite /\ x # currentwhite
                /\ otherwhite # currentwhite
            BY <1>2
          <6>2. \A u \in S : u \in dead \/ marked[u] \in {"gray", currentwhite}
            BY <1>8, <1>11
          <6>. QED BY <1>8, <1>10, <6>1, <6>2
        <5>. QED BY <1>2, <4>1, <5>1 DEF Alive, IsGarbage, IsDead, Exists
      <4>. QED BY <4>2
    <3>. QED BY <3>1, <3>2
  <2>5. \A o \in Obj : \/ marked'[o] \in {marked[o], "gray", "black", currentwhite}
                       \/ marked'[o] = "free" /\ IsDead(o) /\ o \in S
    BY <1>5, <1>8, <1>10, <2>1 DEF Coloured, IsDead
  <2>6. /\ \A o \in Obj : Exists(o) /\ ~IsWhite(o) => marked'[o] \in {"gray", "black"}
        /\ gray \subseteq gray' /\ gray' \subseteq Waiting
        /\ \A o \in Waiting : marked'[o] = "gray" => marked[o] = "gray" \/ o \in gray'
    <3>1. \A o \in Obj \ S : Exists(o) /\ ~IsWhite(o) => marked'[o] \in {"gray", "black"}
      BY <1>2, <1>5, <2>1, LiveOnes DEF Coloured, Exists
    <3>2. \A o \in S : Exists(o) /\ ~IsWhite(o) => marked'[o] \in {"gray", "black"}
      BY <1>2, <1>7, <1>8, <1>10, <1>11, <1>12 DEF IsWhite
    <3>3. gray' = gray \cup (NewlyMarked(V) \cap Waiting) /\ Waiting \subseteq Obj \ S
      BY <1>1, <1>5, <1>12, Distinct DEF Coloured, Waiting, Obj
    <3>4. \A o \in Waiting : marked'[o] = "gray" => marked[o] = "gray" \/ o \in gray'
      BY <1>5, <2>1, <3>3 DEF Coloured
    <3>. QED BY <1>2, <3>1, <3>2, <3>3, <3>4 DEF Kinds
  <2>7. ASSUME NEW o \in Obj, marked'[o] = "black", ~IsBlack(o)
        PROVE  o \in Userdata \cup UpVals /\ \A r \in Refs(o) \cap Obj : marked'[r] \notin Whites
    <3>1. CASE o \in S
      <4>1. o \in grays
        BY <1>2, <1>10, <2>7, <3>1
      <4>2. \A r \in Refs(o) \cap Obj : r \in V /\ r \notin S
        BY <1>3, <1>4, <4>1
      <4>3. \A r \in V \cap Obj : new[r] \notin Whites
        BY <1>5 DEF Coloured
      <4>. QED BY <2>1, <3>1, <4>2, <4>3
    <3>2. CASE o \notin S
      <4>1. o \in NewlyMarked(V) /\ new[o] = "black"
        BY <1>5, <2>1, <2>7, <3>2 DEF Coloured, IsBlack
      <4>2. o \in Userdata \cup UpVals /\ \A r \in Refs(o) \cap Obj : new[r] \notin Whites
        BY <1>5, <4>1 DEF Coloured
      <4>3. o \in Userdata
        BY <1>6, <4>1, <4>2
      <4>4. \A r \in Refs(o) \cap Obj : r \notin S
        BY <1>2, <4>3, WithIsRefs, Distinct
      <4>. QED BY <2>1, <4>2, <4>4
    <3>. QED BY <3>1, <3>2
  <2>. QED BY <1>12, <2>3, <2>4, <2>5, <2>6, <2>7
<1>13. CASE gcstate # "propagate"
  <2>1. M = {} /\ ToTraverse(M) = {}
    BY <1>13 DEF ToTraverse
  <2>. HIDE DEF M
  <2>2. /\ \A o \in Obj \ S : marked'[o] = marked[o]
        /\ \A u \in S : marked'[u] = IF u \in dead THEN "free" ELSE currentwhite
        /\ gray' = gray
    BY <1>1, <1>9, <1>10, <1>13, <2>1
  <2>3. Colouring'
    <3>1. \A u \in UpVals : IsOpen(u) => place[u][1] \in Obj \ S
      BY <1>2, Distinct DEF Fields, IsOpen, Obj
    <3>2. \A o \in Userdata \cup Threads : o \in Obj \ S
      BY Distinct DEF Obj
    <3>3. \A u \in S : ~IsOpen(u)' /\ marked'[u] # "gray"
      BY <1>1, <1>2, <2>2 DEF IsOpen
    <3>4. \A u \in UpVals \ S : place'[u] = place[u] /\ marked'[u] = marked[u]
      BY <1>1, <2>2 DEF Obj
    <3>. QED BY <1>2, <2>2, <3>1, <3>2, <3>3, <3>4 DEF Colouring, IsOpen, IsBlack, Exists
  <2>4. \A o \in Obj : Alive(o)' <=> Alive(o)
    <3>1. \A o \in Obj \ S : Alive(o)' <=> Alive(o)
      BY <1>2, <2>2 DEF Alive, IsGarbage, IsDead, Exists
    <3>2. \A u \in S : Alive(u)' <=> Alive(u)
      <4>1. \A u \in S : u \notin Fixed \cup {mainthread}
        BY <1>2, LiveOnes
      <4>2. \A u \in S : /\ Alive(u) <=> u \notin dead
                         /\ Alive(u)' <=> u \notin dead
        <5>1. \A u \in S : /\ marked[u] # "free" /\ (marked[u] = otherwhite <=> u \in dead)
                           /\ marked'[u] = "free" <=> u \in dead
                           /\ marked'[u] # otherwhite
          <6>1. /\ \A x \in {"free", "gray", "black"} : x # otherwhite /\ x # currentwhite
                /\ otherwhite # currentwhite
            BY <1>2
          <6>2. \A u \in S : u \in dead \/ marked[u] \in {"gray", currentwhite}
            BY <1>8, <1>11
          <6>. QED BY <1>8, <2>2, <6>1, <6>2
        <5>. QED BY <1>2, <4>1, <5>1 DEF Alive, IsGarbage, IsDead, Exists
      <4>. QED BY <4>2
    <3>. QED BY <3>1, <3>2
  <2>. QED BY <1>2, <1>8, <1>13, <2>2, <2>3, <2>4 DEF IsDead, Kinds
<1>. QED BY <1>12, <1>13

LEMMA GivesUp ==
  ASSUME HeldInv, IInv, NEW S \in SUBSET UpVals, \A u \in S : IsOpen(u), Close(S),
         NEW th \in Threads, NEW f, stack' = [stack EXCEPT ![th] = [m \in Level |-> f[m]]],
         \A m \in Level : f[m] \in {stack[th][m], Nil},
         \A x \in Threads : callee'[x] \in {callee[x], Nil},
         UNCHANGED <<tableVars, env, closureVars>>
  PROVE  /\ Gain(Stacks, {Nil})
         /\ place' \in [UpVals -> (Threads \X Level) \cup {Closed}] /\ value' \in [UpVals -> Value]
         /\ stack' \in [Threads -> [Level -> Value]]
<1>1. /\ Fields
      /\ place' = [u \in UpVals |-> IF u \in S THEN Closed ELSE place[u]]
      /\ value' = [u \in UpVals |-> IF u \in S THEN UpValue(u) ELSE value[u]]
  BY DEF HeldInv, Close
<1>2. /\ \A x \in Threads \ {th} : stack'[x] = stack[x]
      /\ stack'[th] = [m \in Level |-> f[m]]
      /\ \A m \in Level : stack'[th][m] \in {stack[th][m], Nil} /\ stack'[th][m] \in Value
  BY <1>1 DEF Fields, Value
<1>3. \A x \in Threads, m \in Level : stack'[x][m] \in {stack[x][m], Nil}
  BY <1>2
<1>4. stack' \in [Threads -> [Level -> Value]]
  <2>1. stack'[th] \in [Level -> Value]
    BY <1>2
  <2>2. \A x \in Threads : stack'[x] \in [Level -> Value]
    BY <1>1, <1>2, <2>1 DEF Fields
  <2>3. stack' = [x \in Threads |-> stack'[x]]
    BY <1>1 DEF Fields
  <2>. QED BY <2>2, <2>3
<1>5. \A u \in UpVals : /\ IsOpen(u) => place[u][1] \in Threads /\ place[u][2] \in Level
                        /\ UpValue(u) \in Value
  BY <1>1 DEF Fields, IsOpen, UpValue
<1>6. place' \in [UpVals -> (Threads \X Level) \cup {Closed}] /\ value' \in [UpVals -> Value]
  BY <1>1, <1>5 DEF Fields
<1>7. ASSUME NEW u \in UpVals PROVE UpValue(u)' = UpValue(u) \/ (u \in Stacks /\ UpValue(u)' = Nil)
  <2>1. CASE u \in S
    BY <1>1, <2>1 DEF UpValue, IsOpen
  <2>2. CASE u \notin S /\ IsOpen(u)
    <3>1. place'[u] = place[u] /\ UpValue(u) = stack[place[u][1]][place[u][2]]
          /\ UpValue(u)' = stack'[place[u][1]][place[u][2]]
      BY <1>1, <2>2 DEF UpValue, IsOpen
    <3>. QED BY <1>3, <1>5, <2>2, <3>1 DEF Stacks
  <2>3. CASE u \notin S /\ ~IsOpen(u)
    BY <1>1, <2>3 DEF UpValue, IsOpen
  <2>. QED BY <2>1, <2>2, <2>3
<1>8. Gain(Stacks, {Nil})
  <2>1. /\ key' = key /\ val' = val /\ meta' = meta /\ proto' = proto /\ upval' = upval /\ k' = k /\ inner' = inner
        /\ env' = env
    BY DEF tableVars, closureVars
  <2>2. /\ \A x \in Threads, m \in Level : stack'[x][m] = stack[x][m] \/ (x \in Stacks /\ stack'[x][m] \in {Nil})
        /\ \A x \in Threads : callee'[x] = callee[x] \/ (x \in Stacks /\ callee'[x] \in {Nil})
        /\ \A u \in UpVals : UpValue(u)' = UpValue(u) \/ (u \in Stacks /\ UpValue(u)' \in {Nil})
    BY <1>3, <1>7 DEF Stacks
  <2>. QED BY <2>1, <2>2, Gains
<1>. QED BY <1>4, <1>6, <1>8

LEMMA HeldReturn ==
  ASSUME HeldInv, IInv, IInv', NEW l \in Level, Return(l)
  PROVE  /\ HeldInv'
         /\ Gain(Stacks, {Nil})
<1>. DEFINE S == OpenFrom(running, l)
            f == [m \in Level |-> IF m >= l THEN Nil ELSE stack[running][m]]
<1>1. /\ Operation /\ Close(S)
      /\ stack' = [stack EXCEPT ![running] = [m \in Level |-> IF m >= l THEN Nil ELSE @[m]]]
      /\ UNCHANGED <<tableVars, env, closureVars, callee, running, mt, grayagain, weak,
                     sweepstrgc, udataVars, phaseVars>>
  BY DEF Return
<1>2. /\ Kinds /\ Kinds' /\ Fields /\ Chain /\ Colouring /\ HoldsAlive /\ SweepList /\ running \in Threads
      /\ closing # "closed" /\ gcstate \notin atomicStates
  BY <1>1 DEF HeldInv, IInv, Operation, ScriptsRun, Kinds
<1>3. S \in SUBSET UpVals /\ \A u \in S : IsOpen(u) /\ u \in Obj
  <2>1. \A m \in Level : <<running, m>> # Closed
    BY <1>2, TraversedAssumption
  <2>. QED BY <2>1 DEF OpenFrom, IsOpen, Obj
<1>4. /\ stack' = [stack EXCEPT ![running] = [m \in Level |-> f[m]]]
      /\ \A m \in Level : f[m] \in {stack[running][m], Nil}
  <2>1. [m \in Level |-> f[m]] = [m \in Level |-> IF m >= l THEN Nil ELSE stack[running][m]]
    OBVIOUS
  <2>. QED BY <1>1, <1>2, <2>1 DEF Fields
<1>. HIDE DEF S, f
<1>5. /\ Gain(Stacks, {Nil})
      /\ place' \in [UpVals -> (Threads \X Level) \cup {Closed}] /\ value' \in [UpVals -> Value]
      /\ stack' \in [Threads -> [Level -> Value]]
  BY <1>1, <1>2, <1>3, <1>4, GivesUp
<1>6. /\ Colouring'
      /\ \A o \in Obj : Alive(o)' <=> Alive(o)
      /\ \A o \in Obj : \/ marked'[o] \in {marked[o], "gray", "black", currentwhite}
                        \/ marked'[o] = "free" /\ IsDead(o) /\ o \in S
      /\ gcstate # "propagate" =>
           \A o \in Obj : marked'[o] \notin {"free", currentwhite} => marked'[o] = marked[o] /\ o \notin S
      /\ gcstate = "propagate" =>
           /\ \A o \in Obj : Exists(o) /\ ~IsWhite(o) => marked'[o] \in {"gray", "black"}
           /\ \A o \in Obj : marked'[o] = "black" /\ ~IsBlack(o) =>
                o \in Userdata \cup UpVals /\ \A r \in Refs(o) \cap Obj : marked'[r] \notin Whites
           /\ \A o \in Waiting : marked'[o] = "gray" => marked[o] = "gray" \/ o \in gray'
      /\ gray \subseteq gray' /\ gray' \subseteq Waiting
  BY <1>1, <1>2, <1>3, Shuts DEF phaseVars
<1>7. /\ sweepgc \subseteq sweepgc' /\ sweepgc' \subseteq sweepgc \cup {u \in S : ~IsDead(u)}
      /\ sweepgc' \subseteq Obj \ Strings
  <2>1. {u \in S : ~IsDead(u)} \subseteq Obj \ Strings
    BY <1>3, Distinct
  <2>2. S \ {u \in S : IsDead(u)} = {u \in S : ~IsDead(u)} /\ Link(S \ {u \in S : IsDead(u)})
    BY <1>1 DEF Close
  <2>. QED BY <1>2, <2>1, <2>2, LinksOnly
<1>8. /\ place' = [u \in UpVals |-> IF u \in S THEN Closed ELSE place[u]]
      /\ \A u \in S : ~IsDead(u) => Exists(u)'
  BY <1>1, <1>2, <1>3, <1>6 DEF Close, Alive, Exists, IsGarbage, IsDead, Colouring
<1>9. Fields'
  BY <1>1, <1>2, <1>5, <1>7 DEF Fields, Entry, tableVars, closureVars, phaseVars
<1>10. Chain'
  BY <1>1, <1>2, SameChain DEF phaseVars
<1>11. SweepList'
  <2>. SUFFICES ASSUME closing = "no", NEW o \in sweepgc' PROVE Exists(o)' /\ (o \in UpVals => ~IsOpen(o)')
    BY <1>1 DEF SweepList, phaseVars
  <2>1. CASE o \in S /\ ~IsDead(o)
    BY <1>3, <1>8, <2>1 DEF IsOpen
  <2>2. CASE o \in sweepgc
    <3>1. Exists(o) /\ (o \in UpVals => ~IsOpen(o)) /\ o \in Obj
      BY <1>2, <2>2 DEF SweepList, Fields
    <3>2. o \notin S
      BY <1>3, <3>1
    <3>3. o \in UpVals => place'[o] = place[o]
      BY <1>8, <3>2
    <3>4. marked'[o] # "free"
      BY <1>2, <1>6, <3>1, <3>2, WhitesAssumption DEF Exists, Kinds
    <3>. QED BY <3>1, <3>3, <3>4 DEF Exists, IsOpen
  <2>. QED BY <1>7, <2>1, <2>2
<1>12. Recolours
  <2>1. \A o \in S : o \in UpVals
    BY <1>3
  <2>2. \A o \in UpVals : o \notin S => place'[o] = place[o]
    BY <1>8
  <2>. QED BY <1>1, <1>2, <1>6, <1>7, <2>1, <2>2 DEF Recolours, phaseVars, udataVars
<1>13. Barriers(Stacks)
  <2>. SUFFICES ASSUME closing = "no", gcstate = "propagate" PROVE Barriers(Stacks)
    BY <1>2 DEF Barriers, Marks
  <2>1. ASSUME NEW x \in Obj \ tmudata, marked'[x] = "black", x \in Stacks \/ ~IsBlack(x)
        PROVE  Shaded(Refs(x))'
    <3>1. ~IsBlack(x)
      BY <1>2, <2>1 DEF Colouring, Stacks
    <3>2. \A r \in Refs(x) \cap Obj : marked'[r] \notin Whites
      BY <1>6, <2>1, <3>1
    <3>3. \A r \in Refs(x)' \cap Obj : r \in Refs(x)
      BY <1>5, <2>1, Distinct DEF Gain
    <3>. QED BY <3>2, <3>3 DEF Shaded, IsWhite
  <2>. QED BY <1>1, <1>6, <2>1 DEF Barriers
<1>14. Finds(Stacks, {Nil}, {})
  BY <1>1, <1>5, <1>6, Distinct DEF Finds, Roots
<1>. QED BY <1>2, <1>5, <1>6, <1>9, <1>10, <1>11, <1>12, <1>13, <1>14, Operates

(* lua_close: what is separated is not dead.                               *)
LEMMA HeldLuaClose ==
  ASSUME HeldInv, IInv, IInv', LuaClose
  PROVE  HeldInv'
<1>. DEFINE S == OpenFrom(mainthread, 0)
            f == [m \in Level |-> Nil]
<1>1. /\ Operation /\ closing = "no" /\ closing' = "finalizing" /\ running' = mainthread
      /\ Close(S)
      /\ stack' = [stack EXCEPT ![mainthread] = [m \in Level |-> Nil]]
      /\ callee' = [callee EXCEPT ![mainthread] = Nil]
      /\ separateudata(TRUE)
      /\ UNCHANGED <<tableVars, env, closureVars, mt, grayagain, weak, sweepstrgc,
                     currentwhite, gcstate, full>>
  BY DEF LuaClose
<1>2. /\ Kinds /\ Kinds' /\ Fields /\ Colouring /\ HoldsAlive /\ Callers /\ Separation
      /\ mainthread \in Threads /\ mainthread \in Obj
  BY KindsAssumption DEF HeldInv, IInv, Obj
<1>3. S \in SUBSET UpVals /\ \A u \in S : IsOpen(u) /\ u \in Obj
  <2>1. \A m \in Level : <<mainthread, m>> # Closed
    BY <1>2, TraversedAssumption
  <2>. QED BY <2>1 DEF OpenFrom, IsOpen, Obj
<1>4. /\ stack' = [stack EXCEPT ![mainthread] = [m \in Level |-> f[m]]]
      /\ \A m \in Level : f[m] \in {stack[mainthread][m], Nil}
  BY <1>1
<1>. HIDE DEF S, f
<1>5. \A x \in Threads : callee'[x] = IF x = mainthread THEN Nil ELSE callee[x]
  BY <1>1, <1>2 DEF Fields
<1>6. /\ Gain(Stacks, {Nil})
      /\ place' \in [UpVals -> (Threads \X Level) \cup {Closed}] /\ value' \in [UpVals -> Value]
      /\ stack' \in [Threads -> [Level -> Value]]
  <2>1. \A x \in Threads : callee'[x] \in {callee[x], Nil}
    BY <1>5
  <2>. QED BY <1>1, <1>2, <1>3, <1>4, <2>1, GivesUp
<1>7. Colouring' /\ \A o \in Obj : Alive(o)' <=> Alive(o)
  BY <1>1, <1>3, Shuts
<1>8. sweepgc' \subseteq Obj \ Strings
  <2>1. S \ {u \in S : IsDead(u)} \subseteq Obj \ Strings
    BY <1>3, Distinct
  <2>2. Link(S \ {u \in S : IsDead(u)})
    BY <1>1 DEF Close
  <2>. QED BY <1>2, <2>1, <2>2, LinksOnly
<1>9. Fields'
  <2>1. callee' \in [Threads -> Threads \cup {Nil}]
    BY <1>1, <1>2 DEF Fields
  <2>. QED BY <1>1, <1>2, <1>6, <1>8, <2>1 DEF Fields, Entry, tableVars, closureVars
<1>10. \A u \in tmudata' : u \in Obj /\ Alive(u)
  <2>1. \A u \in tmudata : u # Nil /\ u \in Obj /\ Alive(u)
    BY <1>1, <1>2, Distinct DEF HoldsAlive, IInv, Calls, Obj
  <2>2. ASSUME NEW u \in Separated(TRUE) PROVE u \in Obj /\ Alive(u)
    BY <1>1, <1>2, <2>2 DEF Separated, Separation, Alive, IsGarbage, Linked, Obj
  <2>3. tmudata' \subseteq tmudata \cup Separated(TRUE)
    BY <1>1 DEF separateudata
  <2>. QED BY <2>1, <2>2, <2>3
<1>11. HoldsAlive'
  <2>1. (Roots \cup {running})' \subseteq Roots
    BY <1>1 DEF Roots
  <2>2. \A o \in Roots \ {Nil} : o \in Obj
    BY <1>2, KindsAssumption, TraversedAssumption DEF Roots, Obj, Fields, Kinds
  <2>3. \A o \in (Roots \cup {running} \cup tmudata)' \ {Nil} : Alive(o)'
    BY <1>1, <1>2, <1>7, <1>10, <2>1, <2>2 DEF HoldsAlive
  <2>4. \A o \in Obj : Alive(o)' => \A r \in Refs(o)' \cap Obj : Alive(r)'
    BY <1>1, <1>2, <1>6, <1>7, Distinct DEF HoldsAlive, Gain
  <2>. QED BY <2>3, <2>4 DEF HoldsAlive
<1>12. Callers'
  <2>1. Threads \subseteq Obj
    BY DEF Obj
  <2>. QED BY <1>1, <1>2, <1>5, <1>7, <2>1 DEF Callers
<1>. QED BY <1>1, <1>7, <1>9, <1>11, <1>12
     DEF HeldInv, Chain, Quiet, Sweeping, SweepList, Marked, Marks, Finishing

--------------------------------------------------------------------------------
(* Steps that leave the heap as it is.                                     *)
LEMMA SameHeap ==
  ASSUME UNCHANGED heapVars
  PROVE  /\ \A o \in Obj : Refs(o)' = Refs(o) /\ Traversed(o)' = Traversed(o) /\ With(o)' = With(o)
         /\ \A u \in UpVals : UpValue(u)' = UpValue(u) /\ (IsOpen(u)' <=> IsOpen(u))
         /\ Roots' = Roots /\ running' = running
<1>1. /\ meta' = meta /\ key' = key /\ val' = val /\ env' = env /\ proto' = proto /\ upval' = upval
      /\ k' = k /\ inner' = inner /\ stack' = stack /\ callee' = callee /\ running' = running
      /\ place' = place /\ value' = value /\ mt' = mt
  BY DEF heapVars, tableVars, closureVars, threadVars, upvalVars
<1>2. \A u : UpValue(u)' = UpValue(u) /\ (IsOpen(u)' <=> IsOpen(u))
  BY <1>1 DEF UpValue, IsOpen
<1>3. /\ \A o : WeakKeys(o)' = WeakKeys(o) /\ WeakValues(o)' = WeakValues(o)
      /\ \A t, n : Entry(t, n)' = Entry(t, n)
  BY <1>1 DEF WeakKeys, WeakValues, Entry
<1>4. \A o : With(o)' = With(o)
  BY <1>1, <1>2 DEF With
<1>5. \A o : Traversed(o)' = Traversed(o)
  BY <1>1, <1>3 DEF Traversed
<1>6. \A o : Refs(o)' = Refs(o)
  BY <1>1, <1>3, <1>4, <1>5 DEF Refs
<1>. QED BY <1>1, <1>2, <1>4, <1>5, <1>6 DEF Roots

LEMMA SameAlive ==
  ASSUME UNCHANGED <<marked, currentwhite>>
  PROVE  \A o : /\ (Alive(o)' <=> Alive(o)) /\ (IsDead(o)' <=> IsDead(o))
                /\ (IsWhite(o)' <=> IsWhite(o)) /\ (Exists(o)' <=> Exists(o)) /\ (IsBlack(o)' <=> IsBlack(o))
BY DEF Alive, IsGarbage, IsDead, Exists, IsWhite, IsBlack, otherwhite

LEMMA NothingMoves ==
  ASSUME HeldInv, IInv, UNCHANGED <<heapVars, marked, currentwhite, tmudata, closing>>
  PROVE  /\ Colouring' /\ HoldsAlive' /\ Callers' /\ Chain'
         /\ \A o \in Obj : Refs(o)' = Refs(o)
<1>1. /\ \A o \in Obj : Refs(o)' = Refs(o)
      /\ \A u \in UpVals : IsOpen(u)' <=> IsOpen(u)
      /\ Roots' = Roots /\ running' = running
  BY SameHeap
<1>2. \A o : (Alive(o)' <=> Alive(o)) /\ (Exists(o)' <=> Exists(o)) /\ (IsBlack(o)' <=> IsBlack(o))
  BY SameAlive
<1>3. place' = place /\ callee' = callee
  BY DEF heapVars, upvalVars, threadVars
<1>4. Colouring'
  BY <1>1, <1>2, <1>3 DEF HeldInv, Colouring
<1>5. HoldsAlive'
  BY <1>1, <1>2 DEF HeldInv, HoldsAlive
<1>6. Callers' /\ Chain'
  BY <1>1, <1>2, <1>3 DEF HeldInv, Callers, Chain, Follow
<1>. QED BY <1>1, <1>4, <1>5, <1>6

LEMMA NothingChanges ==
  ASSUME HeldInv, IInv,
         UNCHANGED <<heapVars, marked, listVars, sweepVars, tmudata, currentwhite, gcstate, closing>>
  PROVE  HeldInv'
<1>1. /\ Colouring' /\ HoldsAlive' /\ Callers' /\ Chain' /\ \A o \in Obj : Refs(o)' = Refs(o)
  BY NothingMoves
<1>2. /\ \A o \in Obj : Traversed(o)' = Traversed(o) /\ With(o)' = With(o)
      /\ \A u \in UpVals : IsOpen(u)' <=> IsOpen(u)
      /\ running' = running
  BY SameHeap
<1>3. /\ \A o : /\ (IsDead(o)' <=> IsDead(o)) /\ (IsWhite(o)' <=> IsWhite(o))
                /\ (Exists(o)' <=> Exists(o)) /\ (IsBlack(o)' <=> IsBlack(o))
      /\ \A S : Shaded(S)' <=> Shaded(S)
  <2>1. \A o : /\ (IsDead(o)' <=> IsDead(o)) /\ (IsWhite(o)' <=> IsWhite(o))
               /\ (Exists(o)' <=> Exists(o)) /\ (IsBlack(o)' <=> IsBlack(o))
    BY SameAlive
  <2>. QED BY <2>1 DEF Shaded
<1>4. /\ meta' = meta /\ key' = key /\ val' = val /\ env' = env /\ proto' = proto /\ upval' = upval
      /\ k' = k /\ inner' = inner /\ stack' = stack /\ callee' = callee
      /\ place' = place /\ value' = value /\ mt' = mt
      /\ gray' = gray /\ grayagain' = grayagain /\ weak' = weak
      /\ sweepstrgc' = sweepstrgc /\ sweepgc' = sweepgc
  BY DEF heapVars, tableVars, closureVars, threadVars, upvalVars, listVars, sweepVars
<1>5. Fields'
  BY <1>4 DEF HeldInv, Fields, Entry
<1>6. Quiet' /\ Sweeping' /\ SweepList'
  <2>1. \A o \in Obj : ToSweep(o)' <=> ToSweep(o)
    BY <1>4 DEF ToSweep, IsOpen
  <2>2. \A o \in sweepgc : IsOpen(o)' <=> IsOpen(o)
    BY <1>4 DEF IsOpen
  <2>. QED BY <1>3, <1>4, <2>1, <2>2 DEF HeldInv, Quiet, Sweeping, SweepList
<1>7. Marked'
  <2>. SUFFICES ASSUME Marks PROVE Marked'
    BY DEF Marked, Marks
  <2>1. /\ \A o \in Obj : ~IsDead(o)
        /\ \A o \in Obj \ tmudata : IsBlack(o) => Shaded(Refs(o))
        /\ \A o \in Waiting : marked[o] = "gray" => o \in gray \cup grayagain \cup weak
        /\ Shaded({mainthread, registry})
    BY DEF HeldInv, Marked
  <2>2. \A o \in Obj \ tmudata : IsBlack(o)' => Shaded(Refs(o))'
    BY <1>1, <1>3, <2>1 DEF Shaded
  <2>3. Shaded({mainthread, registry})'
    BY <1>3, <2>1
  <2>. QED BY <1>3, <1>4, <2>1, <2>2, <2>3 DEF Marked
<1>8. Finishing'
  <2>. SUFFICES ASSUME closing = "no" PROVE Finishing'
    BY DEF Finishing
  <2>1. \A o \in Obj : /\ Shaded(Refs(o))' <=> Shaded(Refs(o))
                       /\ Shaded(With(o))' <=> Shaded(With(o))
                       /\ Shaded(Traversed(o))' <=> Shaded(Traversed(o))
    BY <1>1, <1>2, <1>3 DEF Shaded
  <2>2. /\ Shaded({running, mt})' <=> Shaded({running, mt})
        /\ Shaded(tmudata)' <=> Shaded(tmudata)
    BY <1>2, <1>3, <1>4 DEF Shaded
  <2>3. /\ UpVals \subseteq Obj /\ weak \subseteq Obj /\ tmudata \subseteq Obj /\ grayagain \subseteq Obj
    BY DEF HeldInv, Fields, IInv, Calls, Obj
  <2>4. /\ gcstate \in atomicStates =>
             \A u \in UpVals : marked[u] = "gray" => Shaded(With(u))
        /\ gcstate \in {"reweak", "again", "preserve"} =>
             Shaded({running, mt}) /\ \A o \in weak : Shaded(Traversed(o))
        /\ gcstate \in {"again", "preserve"} =>
             grayagain \subseteq Threads /\ \A o \in grayagain : Shaded(Refs(o))
        /\ gcstate = "preserve" => Shaded(tmudata) /\ \A o \in tmudata : Shaded(With(o))
    BY DEF HeldInv, Finishing
  <2>5. gcstate \in atomicStates => \A u \in UpVals : marked'[u] = "gray" => Shaded(With(u))'
    BY <2>1, <2>3, <2>4
  <2>6. gcstate \in {"reweak", "again", "preserve"} =>
             Shaded({running, mt})' /\ \A o \in weak : Shaded(Traversed(o))'
    BY <2>1, <2>2, <2>3, <2>4
  <2>7. gcstate \in {"again", "preserve"} =>
             grayagain \subseteq Threads /\ \A o \in grayagain : Shaded(Refs(o))'
    BY <2>1, <2>3, <2>4
  <2>8. gcstate = "preserve" => Shaded(tmudata)' /\ \A o \in tmudata : Shaded(With(o))'
    BY <2>1, <2>2, <2>3, <2>4
  <2>. QED BY <1>4, <2>5, <2>6, <2>7, <2>8 DEF Finishing
<1>. QED BY <1>1, <1>5, <1>6, <1>7, <1>8 DEF HeldInv

LEMMA HeldEndCycle ==
  ASSUME HeldInv, IInv, IInv', EndCycle
  PROVE  HeldInv'
<1>1. /\ gcstate = "finalize" /\ gcstate' = "pause"
      /\ UNCHANGED <<heapVars, marked, listVars, sweepVars, udataVars, currentwhite, closing>>
  BY DEF EndCycle
<1>2. /\ Colouring' /\ HoldsAlive' /\ Callers' /\ Chain'
  BY <1>1, NothingMoves DEF udataVars
<1>3. Fields'
  BY <1>1 DEF HeldInv, Fields, Entry, heapVars, tableVars, closureVars, threadVars, upvalVars, listVars, sweepVars
<1>4. Quiet' /\ SweepList'
  BY <1>1 DEF HeldInv, Quiet, SweepList, Exists, IsOpen, heapVars, upvalVars, udataVars, sweepVars
<1>. QED BY <1>1, <1>2, <1>3, <1>4 DEF HeldInv, Sweeping, Marked, Marks, Finishing, atomicStates

(* All objects are to be swept.                                            *)
LEMMA RootIsAll ==
  ASSUME HeldInv, IInv
  PROVE  /\ Root \subseteq Obj \ Strings /\ \A o \in Root : Exists(o) /\ (o \in UpVals => ~IsOpen(o))
         /\ \A o \in Obj : Exists(o) /\ o \notin tmudata =>
              \/ o \in Strings /\ hash[o] >= 0
              \/ o \notin Strings /\ o \in UpVals /\ IsOpen(o) /\ place[o][1] \in Root
              \/ o \notin Strings /\ ~(o \in UpVals /\ IsOpen(o)) /\ o \in Root
<1>1. Colouring /\ Fields /\ tmudata \subseteq Userdata
  BY DEF HeldInv, IInv, Calls
<1>2. Root \subseteq Obj \ Strings /\ \A o \in Root : Exists(o) /\ (o \in UpVals => ~IsOpen(o))
  BY DEF Root, Linked
<1>3. \A o \in Strings : hash[o] >= 0
  BY TraversedAssumption
<1>4. ASSUME NEW o \in UpVals, IsOpen(o) PROVE place[o][1] \in Root
  <2>1. place[o][1] \in Threads /\ Exists(place[o][1])
    BY <1>1, <1>4 DEF Colouring, Fields, IsOpen
  <2>. QED BY <1>1, <2>1, Distinct DEF Root, Linked, Obj
<1>. QED BY <1>2, <1>3, <1>4 DEF Root, Linked

LEMMA HeldFullGC ==
  ASSUME HeldInv, IInv, IInv', FullGC
  PROVE  HeldInv'
<1>1. UNCHANGED <<heapVars, marked, udataVars, currentwhite, closing>>
  BY DEF FullGC
<1>2. CASE gcstate \in {"pause", "propagate"}
  <2>1. /\ gcstate' = "sweepstring" /\ sweepstrgc' = 0 /\ sweepgc' = Root
        /\ gray' = {} /\ grayagain' = {} /\ weak' = {}
    BY <1>2 DEF FullGC
  <2>2. /\ Colouring' /\ HoldsAlive' /\ Callers' /\ Chain'
    BY <1>1, NothingMoves DEF udataVars
  <2>3. place' = place /\ tmudata' = tmudata
    BY <1>1 DEF heapVars, upvalVars, udataVars
  <2>4. SweepList' /\ Sweeping'
    BY <1>1, <2>1, <2>3, RootIsAll DEF SweepList, Sweeping, ToSweep, Exists, IsOpen
  <2>5. Fields'
    BY <1>1, <2>1, RootIsAll DEF HeldInv, Fields, Entry, heapVars, tableVars, closureVars, threadVars, upvalVars
  <2>. QED BY <2>1, <2>2, <2>4, <2>5 DEF HeldInv, Quiet, Marked, Marks, Finishing, atomicStates
<1>3. CASE gcstate \notin {"pause", "propagate"}
  <2>1. UNCHANGED <<heapVars, marked, listVars, sweepVars, tmudata, currentwhite, gcstate, closing>>
    BY <1>1, <1>3 DEF FullGC, udataVars
  <2>. QED BY <2>1, NothingChanges
<1>. QED BY <1>2, <1>3

LEMMA HeldFreeAll ==
  ASSUME HeldInv, IInv, IInv', FreeAll
  PROVE  HeldInv'
<1>1. /\ closing' = "closed"
      /\ marked' = [o \in Obj |-> IF o = mainthread THEN marked[o] ELSE "free"]
      /\ place' = [u \in UpVals |-> Closed]
      /\ UNCHANGED <<tableVars, env, closureVars, threadVars, value, mt, listVars, sweepVars,
                     udataVars, currentwhite, gcstate, full>>
  BY DEF FreeAll
<1>2. Fields /\ Colouring /\ mainthread \notin Userdata \cup UpVals
  BY Distinct, KindsAssumption DEF HeldInv
<1>3. Fields'
  BY <1>1, <1>2 DEF Fields, Entry, tableVars, closureVars, threadVars, listVars, sweepVars
<1>4. Colouring'
  <2>1. Userdata \cup UpVals \cup Threads \subseteq Obj
    BY DEF Obj
  <2>2. \A u \in UpVals : ~IsOpen(u)'
    BY <1>1 DEF IsOpen
  <2>. QED BY <1>1, <1>2, <2>1, <2>2 DEF Colouring, IsBlack
<1>. QED BY <1>1, <1>3, <1>4
     DEF HeldInv, HoldsAlive, Callers, Chain, Quiet, Sweeping, SweepList, Marked, Marks, Finishing

(* A userdata that was waiting for its finalizer is on the stack again.    *)
LEMMA HeldGCTM ==
  ASSUME HeldInv, IInv, IInv', closing # "closed", gcstate \notin atomicStates,
         closing = "no" => gcstate = "finalize", NEW u, GCTM(u)
  PROVE  HeldInv'
<1>1. /\ u \in tmudata /\ tmudata' = tmudata \ {u}
      /\ marked' = [marked EXCEPT ![u] = currentwhite] /\ Link({u})
      /\ UNCHANGED <<tableVars, env, closureVars, callee, running, upvalVars, mt, listVars,
                     sweepstrgc, phaseVars>>
      /\ stack' = stack \/ \E l \in Level : Push(l, u)
  BY DEF GCTM
<1>2. /\ Kinds /\ Kinds' /\ Fields /\ Chain /\ Callers /\ Colouring /\ HoldsAlive /\ SweepList /\ Quiet
      /\ u \in Userdata /\ u \in Obj /\ u \in Value /\ u \notin Strings
      /\ Exists(u) /\ otherwhite' = otherwhite
      /\ currentwhite \notin {otherwhite, "gray", "black", "free"}
  BY <1>1, Distinct, TwoWhites DEF HeldInv, IInv, Calls, Obj, Object, Value, otherwhite, phaseVars, Kinds
<1>3. Alive(u)
  BY <1>1, <1>2, Distinct DEF HoldsAlive
<1>4. \A o \in Obj : o # u => marked'[o] = marked[o]
  BY <1>1, <1>2 DEF Kinds
<1>5. marked'[u] = currentwhite
  BY <1>1, <1>2 DEF Kinds
<1>6. \A o \in Obj : Alive(o)' <=> Alive(o)
  BY <1>2, <1>3, <1>4, <1>5 DEF Alive, IsGarbage, IsDead, Exists
<1>7. /\ \A th \in Threads, m \in Level :
            stack'[th][m] = stack[th][m] \/ (th \in Stacks /\ stack'[th][m] \in {u})
      /\ \A w \in UpVals : UpValue(w)' = UpValue(w) \/ (w \in Stacks /\ UpValue(w)' \in {u})
      /\ stack' \in [Threads -> [Level -> Value]]
  <2>1. CASE stack' = stack
    BY <1>1, <1>2, <2>1 DEF Fields, UpValue, IsOpen, upvalVars
  <2>2. CASE \E l \in Level : Push(l, u)
    BY <1>1, <1>2, <2>2, Pushes
  <2>. QED BY <1>1, <2>1, <2>2
<1>8. Gain(Stacks, {u})
  <2>1. /\ key' = key /\ val' = val /\ meta' = meta /\ k' = k /\ inner' = inner /\ callee' = callee
        /\ env' = env /\ proto' = proto /\ upval' = upval
    BY <1>1 DEF tableVars, closureVars
  <2>. QED BY <1>7, <2>1, Gains
<1>9. HoldsAlive'
  <2>1. (Roots \cup {running} \cup tmudata)' \subseteq Roots \cup {running} \cup tmudata
    BY <1>1 DEF Roots
  <2>2. \A o \in (Roots \cup {running} \cup tmudata) \ {Nil} : o \in Obj
    BY <1>2, KindsAssumption, TraversedAssumption DEF Roots, Obj, Fields, Kinds, IInv, Calls
  <2>3. \A o \in (Roots \cup {running} \cup tmudata)' \ {Nil} : Alive(o)'
    BY <1>2, <1>6, <2>1, <2>2 DEF HoldsAlive
  <2>4. \A o \in Obj : Alive(o)' => \A r \in Refs(o)' \cap Obj : Alive(r)'
    BY <1>2, <1>3, <1>6, <1>8 DEF HoldsAlive, Gain
  <2>. QED BY <2>3, <2>4 DEF HoldsAlive
<1>10. sweepgc' \subseteq sweepgc \cup {u} /\ sweepgc' \subseteq Obj \ Strings /\ (closing = "no" => sweepgc' = sweepgc)
  <2>1. {u} \subseteq Obj \ Strings
    BY <1>2
  <2>2. sweepgc' \subseteq sweepgc \cup {u} /\ sweepgc' \subseteq Obj \ Strings
    BY <1>1, <1>2, <2>1, LinksOnly
  <2>. QED BY <1>1, <2>2 DEF Link
<1>11. Fields'
  BY <1>1, <1>2, <1>7, <1>10 DEF Fields, Entry, tableVars, closureVars, upvalVars, listVars, phaseVars
<1>12. Colouring' /\ Callers' /\ Chain'
  <2>1. Userdata \cup UpVals \cup Threads \subseteq Obj /\ u \notin UpVals \cup Threads
    BY <1>2, Distinct DEF Obj
  <2>2. \A w \in UpVals : (IsOpen(w)' <=> IsOpen(w)) /\ place'[w] = place[w]
                          /\ (IsOpen(w) => place[w][1] \in Threads)
    BY <1>1, <1>2 DEF IsOpen, upvalVars, Fields
  <2>3. Colouring'
    BY <1>2, <1>4, <1>5, <2>1, <2>2 DEF Colouring, IsBlack, Exists
  <2>4. Callers'
    BY <1>1, <1>2, <1>6, <2>1 DEF Callers, phaseVars
  <2>. QED BY <1>1, <1>2, <2>3, <2>4, SameChain DEF phaseVars
<1>13. Quiet' /\ SweepList'
  <2>. SUFFICES ASSUME closing = "no" PROVE Quiet' /\ SweepList'
    BY <1>1 DEF Quiet, SweepList, phaseVars
  <2>1. gcstate = "finalize" /\ gcstate' = "finalize" /\ currentwhite' = currentwhite /\ closing' = closing
    BY <1>1 DEF phaseVars
  <2>2. Quiet'
    BY <1>1, <1>2, <1>4, <1>5, <2>1 DEF Quiet, Exists
  <2>3. \A o \in sweepgc : Exists(o)' /\ (IsOpen(o)' <=> IsOpen(o))
    BY <1>1, <1>2, <1>4, <1>5, <2>1 DEF SweepList, Exists, IsOpen, upvalVars, Fields
  <2>. QED BY <1>2, <1>10, <2>1, <2>2, <2>3 DEF SweepList
<1>14. Sweeping' /\ Marked' /\ Finishing'
  BY <1>1 DEF Sweeping, Marked, Marks, Finishing, phaseVars, atomicStates
<1>. QED BY <1>9, <1>11, <1>12, <1>13, <1>14 DEF HeldInv

--------------------------------------------------------------------------------
(* The collector marks: nothing is dead, and nothing dies.                 *)
LEMMA NewColours ==
  ASSUME HeldInv, IInv, \A o \in Obj : ~IsDead(o), NEW S, NEW new,
         new = Marking(marked, NewlyMarked(S))
  PROVE  /\ Coloured(S, new)
         /\ \A o \in Obj : /\ new[o] = "free" <=> marked[o] = "free"
                           /\ new[o] # otherwhite
                           /\ marked[o] = currentwhite \/ new[o] = marked[o]
<1>1. Kinds /\ Fields /\ Colouring
  BY DEF HeldInv, IInv
<1>2. Coloured(S, new)
  BY <1>1, MarkingOf
<1>3. \A o \in NewlyMarked(S) : IsWhite(o) /\ new[o] \in {"gray", "black"} /\ o \in Obj
  BY <1>2 DEF Coloured
<1>4. \A o \in Obj \ NewlyMarked(S) : new[o] = marked[o]
  BY <1>2 DEF Coloured
<1>5. /\ {currentwhite, otherwhite} \cap {"gray", "black", "free"} = {}
      /\ Whites = {currentwhite, otherwhite}
  BY <1>1, TwoWhites DEF Kinds
<1>6. \A o \in Obj : /\ new[o] = "free" <=> marked[o] = "free"
                     /\ new[o] # otherwhite
                     /\ marked[o] = currentwhite \/ new[o] = marked[o]
  <2>1. \A o \in NewlyMarked(S) : marked[o] = currentwhite /\ o \in Obj
    BY <1>3, <1>5 DEF IsWhite, IsDead
  <2>2. \A o \in Obj : marked[o] # otherwhite
    BY DEF IsDead
  <2>. QED BY <1>3, <1>4, <1>5, <2>1, <2>2
<1>. QED BY <1>2, <1>6

LEMMA Recoloured ==
  ASSUME HeldInv, IInv, closing = "no", Gain({}, {}),
         UNCHANGED <<env, mt, running, callee, place, closing>>,
         \A u \in tmudata' : u \in Obj /\ Alive(u),
         \A o \in Obj : (Alive(o)' <=> Alive(o)) /\ (Exists(o) => Exists(o)'),
         \A u \in Userdata : marked'[u] # "gray",
         \A th \in Threads : marked'[th] # "black",
         \A u \in UpVals : marked'[u] # IF IsOpen(u) THEN "black" ELSE "gray",
         sweepgc' = sweepgc
  PROVE  Colouring' /\ HoldsAlive' /\ Callers' /\ Chain' /\ SweepList'
<1>1. /\ Kinds /\ Fields /\ Colouring /\ HoldsAlive /\ Callers /\ Chain /\ SweepList
      /\ Threads \cup UpVals \subseteq Obj
  BY DEF HeldInv, IInv, Obj
<1>2. \A u : IsOpen(u)' <=> IsOpen(u)
  BY DEF IsOpen
<1>3. Colouring'
  <2>1. \A u \in UpVals : IsOpen(u) => place[u][1] \in Obj
    BY <1>1 DEF Fields, IsOpen
  <2>. QED BY <1>1, <1>2, <2>1 DEF Colouring, IsBlack
<1>4. HoldsAlive'
  <2>1. (Roots \cup {running})' = Roots \cup {running}
    BY DEF Roots
  <2>2. \A o \in (Roots \cup {running}) \ {Nil} : o \in Obj /\ Alive(o)
    BY <1>1, KindsAssumption, TraversedAssumption DEF Roots, Obj, Fields, Kinds, HoldsAlive
  <2>3. \A o \in (Roots \cup {running} \cup tmudata)' \ {Nil} : Alive(o)'
    BY <2>1, <2>2
  <2>4. \A o \in Obj : Alive(o)' => \A r \in Refs(o)' \cap Obj : Alive(r)'
    BY <1>1 DEF HoldsAlive, Gain
  <2>. QED BY <2>3, <2>4 DEF HoldsAlive
<1>5. Callers' /\ Chain'
  BY <1>1, SameChain DEF Callers
<1>6. SweepList'
  BY <1>1, <1>2 DEF SweepList, Fields
<1>. QED BY <1>3, <1>4, <1>5, <1>6

LEMMA NothingGained ==
  ASSUME UNCHANGED heapVars
  PROVE  Gain({}, {}) /\ UNCHANGED <<env, mt, running, callee, place>>
BY SameHeap DEF Gain, heapVars, threadVars, upvalVars

LEMMA SameFields ==
  ASSUME Fields, UNCHANGED <<heapVars, closing, sweepVars>>,
         gcstate' \in {"pause", "propagate", "sweepstring", "sweep", "finalize"} \cup atomicStates,
         grayagain' \subseteq Tables \cup Threads, weak' \subseteq Tables
  PROVE  Fields'
BY DEF Fields, Entry, heapVars, tableVars, closureVars, threadVars, upvalVars, sweepVars

(* Alive, in a cycle that marks.                                           *)
LEMMA MarkingKeeps ==
  ASSUME HeldInv, IInv, \A o \in Obj : ~IsDead(o), UNCHANGED currentwhite,
         \A o \in Obj : (marked'[o] = "free" <=> marked[o] = "free") /\ marked'[o] # otherwhite
  PROVE  /\ \A o \in Obj : (Alive(o)' <=> Alive(o)) /\ (Exists(o) <=> Exists(o)') /\ ~IsDead(o)'
         /\ \A o \in Obj : Alive(o) <=> Exists(o)
<1>1. otherwhite' = otherwhite
  BY DEF otherwhite
<1>. QED BY <1>1 DEF Alive, IsGarbage, IsDead, Exists

LEMMA HeldMarkRoot ==
  ASSUME HeldInv, IInv, IInv', MarkRoot, closing = "no"
  PROVE  HeldInv'
<1>. DEFINE S == {mainthread, env[mainthread], registry, mt}
<1>1. /\ gcstate \in {"pause", "finalize"} /\ gcstate' = "propagate"
      /\ marked' = Marking(marked, NewlyMarked(S)) /\ gray' = ToTraverse(NewlyMarked(S))
      /\ grayagain' = {} /\ weak' = {}
      /\ UNCHANGED <<heapVars, sweepVars, udataVars, currentwhite, closing>>
  BY DEF MarkRoot
<1>. HIDE DEF S
<1>2. /\ Kinds /\ Fields /\ Separation /\ Quiet /\ HoldsAlive /\ tmudata \subseteq Userdata
      /\ otherwhite # currentwhite /\ {currentwhite, otherwhite} \cap {"gray", "black", "free"} = {}
      /\ Whites = {currentwhite, otherwhite}
      /\ mainthread \in Obj /\ registry \in Obj
  BY TwoWhites, KindsAssumption, TraversedAssumption DEF HeldInv, IInv, Calls, Kinds, Obj
<1>3. \A o \in Obj \ tmudata : marked[o] \in {"free", currentwhite}
  BY <1>1, <1>2 DEF Quiet, Exists
<1>4. \A o \in Obj : ~IsDead(o)
  BY <1>1, <1>2, <1>3 DEF Separation, IsDead
<1>5. /\ Coloured(S, marked')
      /\ \A o \in Obj : /\ marked'[o] = "free" <=> marked[o] = "free"
                        /\ marked'[o] # otherwhite
  BY <1>1, <1>4, NewColours
<1>6. \A o \in Obj : (Alive(o)' <=> Alive(o)) /\ (Exists(o) <=> Exists(o)') /\ ~IsDead(o)'
  BY <1>1, <1>4, <1>5, MarkingKeeps
<1>7. tmudata' = tmudata /\ \A u \in tmudata : u \in Obj /\ Alive(u)
  BY <1>1, <1>2, KindsAssumption DEF udataVars, HoldsAlive, Obj
<1>8. Colouring' /\ HoldsAlive' /\ Callers' /\ Chain' /\ SweepList'
  BY <1>1, <1>5, <1>6, <1>7, NothingGained, Recoloured DEF Coloured, sweepVars
<1>9. Fields'
  BY <1>1, <1>2, SameFields
<1>10. Marked'
  <2>1. ASSUME NEW o \in Obj \ tmudata, IsBlack(o)' PROVE Shaded(Refs(o))'
    <3>1. o \in NewlyMarked(S)
      BY <1>2, <1>3, <1>5, <2>1 DEF Coloured, IsBlack
    <3>2. Refs(o)' = Refs(o) /\ \A r \in Refs(o) \cap Obj : marked'[r] \notin Whites
      BY <1>1, <1>5, <2>1, <3>1, SameHeap DEF Coloured, IsBlack
    <3>. QED BY <3>2 DEF Shaded, IsWhite
  <2>2. \A o \in Waiting : marked'[o] = "gray" => o \in gray'
    <3>1. \A o \in Waiting : o \in Obj \ tmudata
      BY <1>2, Distinct DEF Waiting, Obj
    <3>. QED BY <1>1, <1>2, <1>3, <1>5, <3>1 DEF Coloured
  <2>3. Shaded({mainthread, registry})'
    BY <1>2, <1>5 DEF Coloured, Shaded, IsWhite, S
  <2>. QED BY <1>6, <1>7, <2>1, <2>2, <2>3 DEF Marked
<1>. QED BY <1>1, <1>8, <1>9, <1>10 DEF HeldInv, Quiet, Sweeping, Finishing, atomicStates

(* What is marked stays so, and what is black now has marked what it       *)
(* refers to.                                                              *)
Grows ==
  \A x \in Obj : /\ marked'[x] = "free" <=> marked[x] = "free"
                 /\ marked'[x] # otherwhite
                 /\ ~IsWhite(x) => marked'[x] \notin Whites

LEMMA MarkedStill ==
  ASSUME HeldInv, IInv, Marks, Grows, UNCHANGED currentwhite, tmudata \subseteq tmudata',
         \A o \in Obj : Refs(o)' = Refs(o),
         \A x \in Obj \ tmudata' : marked'[x] = "black" =>
            IsBlack(x) \/ \A r \in Refs(x) \cap Obj : marked'[r] \notin Whites,
         \A x \in Waiting : marked'[x] = "gray" => x \in gray' \cup grayagain' \cup weak'
  PROVE  /\ \A o \in Obj : ~IsDead(o)
         /\ \A o \in Obj : (Alive(o)' <=> Alive(o)) /\ (Exists(o) <=> Exists(o)') /\ ~IsDead(o)'
         /\ \A o \in Obj : Alive(o) <=> Exists(o)
         /\ \A T : Shaded(T) => Shaded(T)'
         /\ Marked'
<1>1. /\ \A o \in Obj : ~IsDead(o)
      /\ \A o \in Obj \ tmudata : IsBlack(o) => Shaded(Refs(o))
      /\ Shaded({mainthread, registry})
  BY DEF HeldInv, Marked
<1>2. /\ \A o \in Obj : (Alive(o)' <=> Alive(o)) /\ (Exists(o) <=> Exists(o)') /\ ~IsDead(o)'
      /\ \A o \in Obj : Alive(o) <=> Exists(o)
  BY <1>1, MarkingKeeps DEF Grows
<1>3. \A T : Shaded(T) => Shaded(T)'
  BY DEF Shaded, Grows, IsWhite
<1>4. ASSUME NEW x \in Obj \ tmudata', IsBlack(x)' PROVE Shaded(Refs(x))'
  <2>1. CASE IsBlack(x)
    BY <1>1, <1>3, <1>4, <2>1
  <2>2. CASE \A r \in Refs(x) \cap Obj : marked'[r] \notin Whites
    BY <1>4, <2>2 DEF Shaded, IsWhite
  <2>. QED BY <1>4, <2>1, <2>2 DEF IsBlack
<1>5. Marked'
  BY <1>1, <1>2, <1>3, <1>4 DEF Marked
<1>. QED BY <1>1, <1>2, <1>3, <1>5

LEMMA TraversedOf ==
  \A t \in Tables : \A r : r \in Traversed(t) <=>
    \/ r = meta[t]
    \/ ~WeakKeys(t) /\ \E n \in Node : Entry(t, n) /\ r = key[t][n]
    \/ ~WeakValues(t) /\ \E n \in Node : r = val[t][n]
<1>. TAKE t \in Tables
<1>. TAKE r
<1>. DEFINE K == {key[t][n] : n \in {m \in Node : Entry(t, m)}}
            V == {val[t][n] : n \in Node}
<1>1. Traversed(t) = {meta[t]} \cup (IF WeakKeys(t) THEN {} ELSE K) \cup (IF WeakValues(t) THEN {} ELSE V)
  BY Distinct DEF Traversed
<1>2. /\ r \in K <=> \E n \in Node : Entry(t, n) /\ r = key[t][n]
      /\ r \in V <=> \E n \in Node : r = val[t][n]
  OBVIOUS
<1>. HIDE DEF K, V
<1>. QED BY <1>1, <1>2

LEMMA TraversedNext ==
  (\A t \in Tables : \A r : r \in Traversed(t) <=>
    \/ r = meta[t]
    \/ ~WeakKeys(t) /\ \E n \in Node : Entry(t, n) /\ r = key[t][n]
    \/ ~WeakValues(t) /\ \E n \in Node : r = val[t][n])'
BY TraversedOf, PTL

(* Traversing a gray object makes it black, or puts it in another list.    *)
LEMMA HeldPropagateMark ==
  ASSUME HeldInv, IInv, IInv', NEW o \in gray, PropagateMark(o), closing = "no"
  PROVE  HeldInv' /\ Gain({}, {})
<1>. DEFINE new == Marking(marked, NewlyMarked(Traversed(o)))
            M == NewlyMarked(Traversed(o))
            staysGray == o \in Threads \/ (o \in Tables /\ (WeakKeys(o) \/ WeakValues(o)))
<1>1. /\ Marks
      /\ marked' = [Marking(marked, M) EXCEPT ![o] = IF staysGray THEN "gray" ELSE "black"]
      /\ gray' = (gray \ {o}) \cup ToTraverse(M)
      /\ weak' = IF staysGray /\ o \in Tables THEN weak \cup {o} ELSE weak
      /\ grayagain' = IF o \in Threads THEN grayagain \cup {o} ELSE grayagain
      /\ key' = IF o \in Tables THEN RemoveEmpty(o) ELSE key
      /\ UNCHANGED <<meta, val, env, closureVars, threadVars, upvalVars, mt, sweepVars, udataVars, phaseVars>>
  BY DEF PropagateMark, Marks
<1>2. /\ Kinds /\ Fields /\ OneList /\ Marked /\ Finishing /\ HoldsAlive /\ Colouring
      /\ o \in Waiting /\ o \in Obj /\ marked[o] = "gray" /\ tmudata \subseteq Userdata
      /\ Whites = {currentwhite, otherwhite} /\ {currentwhite, otherwhite} \cap {"gray", "black", "free"} = {}
      /\ otherwhite' = otherwhite
  BY <1>1, TwoWhites DEF HeldInv, IInv, OneList, Kinds, Waiting, Obj, Calls, otherwhite, phaseVars
<1>3. \A x \in Obj : ~IsDead(x)
  BY <1>1, <1>2 DEF Marked
<1>4. /\ Coloured(Traversed(o), new)
      /\ \A x \in Obj : /\ new[x] = "free" <=> marked[x] = "free"
                        /\ new[x] # otherwhite
                        /\ marked[x] = currentwhite \/ new[x] = marked[x]
  BY <1>3, NewColours
<1>5. /\ \A x \in Obj : x # o => marked'[x] = new[x]
      /\ marked'[o] = IF staysGray THEN "gray" ELSE "black"
      /\ o \notin M /\ M \subseteq Obj
      /\ gray' = (gray \ {o}) \cup (M \cap Waiting)
  BY <1>1, <1>2, <1>4 DEF Marking, Coloured, IsWhite
<1>. HIDE DEF new
<1>6. Grows
  <2>1. \A x \in Obj : ~IsWhite(x) => new[x] \notin Whites
    BY <1>4 DEF Coloured
  <2>. QED BY <1>2, <1>4, <1>5, <2>1 DEF Grows
<1>7. /\ key' \in [Tables -> [Node -> Value \cup {DeadKey}]]
      /\ \A t \in Tables, n \in Node : val[t][n] # Nil => key'[t][n] = key[t][n]
  BY <1>1, <1>2 DEF RemoveEmpty, Fields, Entry
<1>8. \A x \in Obj : Refs(x)' = Refs(x) /\ Traversed(x)' = Traversed(x) /\ With(x)' = With(x)
  <2>1. /\ meta' = meta /\ val' = val /\ env' = env /\ proto' = proto /\ upval' = upval
        /\ k' = k /\ inner' = inner /\ stack' = stack /\ callee' = callee
        /\ place' = place /\ value' = value
    BY <1>1 DEF closureVars, threadVars, upvalVars
  <2>2. \A x \in Obj : With(x)' = With(x)
    BY <2>1 DEF With, UpValue, IsOpen
  <2>3. \A x, n : Entry(x, n)' <=> Entry(x, n)
    BY <2>1 DEF Entry
  <2>4. ASSUME NEW x \in Obj PROVE Traversed(x)' = Traversed(x)
    <3>1. CASE x \in Tables
      <4>1. \A r : r \in Traversed(x)' <=> r \in Traversed(x)
        BY <1>7, <2>1, <2>3, <3>1, TraversedOf, TraversedNext DEF WeakKeys, WeakValues, Entry
      <4>. QED BY <4>1, <3>1, Zenon DEF Traversed
    <3>2. CASE x \notin Tables
      BY <2>1, <3>2 DEF Traversed
    <3>. QED BY <3>1, <3>2
  <2>5. ASSUME NEW x \in Tables PROVE Refs(x)' = Refs(x)
    <3>1. \A r : r \in Refs(x)' <=> r \in Refs(x)
      BY <1>7, <2>1, <2>3, <2>5, RefsOf, RefsNext, Distinct DEF RefersTo, Entry, Obj
    <3>. QED BY <3>1, Zenon DEF Refs
  <2>6. \A x \in Obj \ Tables : Refs(x)' = Refs(x)
    BY <2>2, <2>4 DEF Refs
  <2>. QED BY <2>2, <2>4, <2>5, <2>6
<1>9. ~staysGray => \A r \in Refs(o) \cap Obj : r \in Traversed(o)
  BY <1>2, Distinct DEF Refs, Traversed, Waiting
<1>10. \A r \in Traversed(o) \cap Obj : marked'[r] \notin Whites
  <2>1. \A r \in Traversed(o) \cap Obj : new[r] \notin Whites
    BY <1>4 DEF Coloured
  <2>. QED BY <1>2, <1>5, <2>1
<1>11. ASSUME NEW x \in Obj \ tmudata, marked'[x] = "black"
       PROVE  IsBlack(x) \/ \A r \in Refs(x) \cap Obj : marked'[r] \notin Whites
  <2>1. CASE x = o
    BY <1>5, <1>9, <1>10, <1>11, <2>1
  <2>2. CASE x # o /\ x \in M
    <3>1. \A r \in Refs(x) \cap Obj : new[r] \notin Whites
      BY <1>4, <1>5, <1>11, <2>2 DEF Coloured
    <3>. QED BY <1>2, <1>5, <3>1
  <2>3. CASE x # o /\ x \notin M
    BY <1>4, <1>5, <1>11, <2>3 DEF Coloured, IsBlack
  <2>. QED BY <2>1, <2>2, <2>3
<1>12. ASSUME NEW x \in Waiting, marked'[x] = "gray" PROVE x \in gray' \cup grayagain' \cup weak'
  <2>1. x \in Obj
    BY DEF Waiting, Obj
  <2>2. CASE x = o
    BY <1>1, <1>5, <1>12, <2>2
  <2>3. CASE x # o /\ x \in M
    BY <1>5, <2>3
  <2>4. CASE x # o /\ x \notin M
    <3>1. marked[x] = "gray"
      BY <1>4, <1>5, <1>12, <2>1, <2>4 DEF Coloured
    <3>2. x \in gray \cup grayagain \cup weak
      BY <1>1, <1>2, <3>1 DEF Marked
    <3>. QED BY <1>1, <2>4, <3>2
  <2>. QED BY <2>2, <2>3, <2>4
<1>13. /\ \A x \in Obj : (Alive(x)' <=> Alive(x)) /\ (Exists(x) <=> Exists(x)') /\ ~IsDead(x)'
       /\ \A T : Shaded(T) => Shaded(T)'
       /\ Marked'
  BY <1>1, <1>6, <1>8, <1>11, <1>12, MarkedStill DEF udataVars, phaseVars
<1>14. Fields'
  BY <1>1, <1>2, <1>7 DEF Fields, Entry, closureVars, threadVars, upvalVars, sweepVars, phaseVars
<1>15. Colouring' /\ HoldsAlive' /\ Callers' /\ Chain' /\ SweepList'
  <2>1. Gain({}, {}) /\ UNCHANGED <<env, mt, running, callee, place, closing, sweepgc>>
    BY <1>1, <1>8 DEF Gain, threadVars, upvalVars, phaseVars, sweepVars
  <2>2. \A u \in tmudata' : u \in Obj /\ Alive(u)
    BY <1>1, <1>2, KindsAssumption DEF udataVars, HoldsAlive, Obj
  <2>3. /\ \A u \in Userdata : marked'[u] # "gray"
        /\ \A th \in Threads : marked'[th] # "black"
        /\ \A u \in UpVals : marked'[u] # IF IsOpen(u) THEN "black" ELSE "gray"
    <3>1. o \notin Userdata \cup UpVals /\ Userdata \cup UpVals \cup Threads \subseteq Obj
      BY <1>2, Distinct DEF Waiting, Obj
    <3>. QED BY <1>4, <1>5, <3>1 DEF Coloured
  <2>. QED BY <1>1, <1>13, <2>1, <2>2, <2>3, Recoloured
<1>16. Finishing'
  <2>. SUFFICES ASSUME gcstate \in atomicStates PROVE Finishing'
    BY <1>1 DEF Finishing, phaseVars, atomicStates
  <2>1. gcstate' = gcstate /\ closing' = closing /\ running' = running /\ mt' = mt /\ tmudata' = tmudata
    BY <1>1 DEF phaseVars, threadVars, udataVars
  <2>2. ASSUME NEW u \in UpVals, marked'[u] = "gray" PROVE Shaded(With(u))'
    <3>1. u \in Obj /\ u # o
      BY <1>2, Distinct DEF Obj, Waiting
    <3>2. CASE u \in M
      <4>1. With(u) = Refs(u)
        BY <1>2, WithIsRefs
      <4>2. \A r \in Refs(u) \cap Obj : new[r] \notin Whites
        BY <1>4, <3>2 DEF Coloured
      <4>. QED BY <1>2, <1>5, <1>8, <3>1, <4>1, <4>2 DEF Shaded, IsWhite
    <3>3. CASE u \notin M
      <4>1. marked[u] = "gray"
        BY <1>4, <1>5, <2>2, <3>1, <3>3 DEF Coloured
      <4>. QED BY <1>2, <1>8, <1>13, <3>1, <4>1 DEF Finishing
    <3>. QED BY <3>2, <3>3
  <2>3. gcstate \in {"reweak", "again", "preserve"} =>
          Shaded({running, mt})' /\ \A x \in weak' : Shaded(Traversed(x))'
    <3>. SUFFICES ASSUME gcstate \in {"reweak", "again", "preserve"}
                  PROVE  Shaded({running, mt})' /\ \A x \in weak' : Shaded(Traversed(x))'
      OBVIOUS
    <3>1. Shaded({running, mt}) /\ \A x \in weak : Shaded(Traversed(x))
      BY <1>2 DEF Finishing
    <3>2. \A x \in weak : Shaded(Traversed(x))' /\ x \in Obj
      BY <1>2, <1>8, <1>13, <3>1 DEF Fields, Obj
    <3>3. Shaded(Traversed(o))'
      BY <1>2, <1>8, <1>10 DEF Shaded, IsWhite
    <3>. QED BY <1>1, <1>13, <2>1, <3>1, <3>2, <3>3
  <2>4. gcstate \in {"again", "preserve"} =>
          grayagain' \subseteq Threads /\ \A x \in grayagain' : Shaded(Refs(x))'
    <3>. SUFFICES ASSUME gcstate \in {"again", "preserve"}
                  PROVE  grayagain' \subseteq Threads /\ \A x \in grayagain' : Shaded(Refs(x))'
      OBVIOUS
    <3>1. grayagain \subseteq Threads /\ \A x \in grayagain : Shaded(Refs(x))
      BY <1>2 DEF Finishing
    <3>2. \A x \in grayagain : Shaded(Refs(x))'
      BY <1>8, <1>13, <3>1 DEF Obj
    <3>3. o \in Threads => Refs(o) = Traversed(o)
      BY Distinct DEF Refs
    <3>4. o \in Threads => Shaded(Refs(o))'
      BY <1>2, <1>8, <1>10, <3>3 DEF Shaded, IsWhite
    <3>. QED BY <1>1, <3>1, <3>2, <3>4
  <2>5. gcstate = "preserve" => Shaded(tmudata)' /\ \A u \in tmudata : Shaded(With(u))'
    BY <1>2, <1>8, <1>13, <2>1 DEF Finishing, Obj
  <2>. QED BY <2>1, <2>2, <2>3, <2>4, <2>5 DEF Finishing
<1>17. Quiet' /\ Sweeping'
  BY <1>1 DEF Quiet, Sweeping, Marks, phaseVars, atomicStates
<1>18. Gain({}, {})
  BY <1>8 DEF Gain
<1>. QED BY <1>13, <1>14, <1>15, <1>16, <1>17, <1>18 DEF HeldInv

(* The steps of atomic that mark.                                          *)
LEMMA MarksOn ==
  ASSUME HeldInv, IInv, Marks, NEW S, marked' = Marking(marked, NewlyMarked(S)),
         UNCHANGED <<heapVars, sweepVars, tmudata, currentwhite, closing>>,
         gcstate' \in atomicStates, gray = {},
         grayagain \cup weak \cup ToTraverse(NewlyMarked(S)) \subseteq gray' \cup grayagain' \cup weak',
         grayagain' \subseteq Tables \cup Threads, weak' \subseteq Tables
  PROVE  /\ Fields' /\ Colouring' /\ HoldsAlive' /\ Callers' /\ Chain'
         /\ Quiet' /\ Sweeping' /\ SweepList' /\ Marked'
         /\ \A T : Shaded(T) => Shaded(T)'
         /\ \A o \in S \cap Obj : marked'[o] \notin Whites
         /\ \A o \in Obj : Refs(o)' = Refs(o) /\ Traversed(o)' = Traversed(o) /\ With(o)' = With(o)
         /\ \A u \in UpVals : marked'[u] = "gray" => marked[u] = "gray" \/ Shaded(With(u))'
<1>. DEFINE M == NewlyMarked(S)
<1>1. /\ Kinds /\ Fields /\ Marked /\ HoldsAlive /\ tmudata \subseteq Userdata
      /\ Whites = {currentwhite, otherwhite} /\ {currentwhite, otherwhite} \cap {"gray", "black", "free"} = {}
  BY TwoWhites DEF HeldInv, IInv, Kinds, Calls
<1>2. /\ \A x \in Obj : ~IsDead(x)
      /\ \A x \in Waiting : marked[x] = "gray" => x \in grayagain \cup weak
  BY <1>1 DEF Marked
<1>3. /\ Coloured(S, marked')
      /\ \A x \in Obj : /\ marked'[x] = "free" <=> marked[x] = "free"
                        /\ marked'[x] # otherwhite
  BY <1>2, NewColours
<1>4. Grows
  BY <1>3 DEF Grows, Coloured
<1>5. \A o \in Obj : Refs(o)' = Refs(o) /\ Traversed(o)' = Traversed(o) /\ With(o)' = With(o)
  BY SameHeap
<1>6. \A x \in Obj : marked'[x] = "black" => IsBlack(x) \/ \A r \in Refs(x) \cap Obj : marked'[r] \notin Whites
  BY <1>3 DEF Coloured, IsBlack
<1>7. \A x \in Waiting : marked'[x] = "gray" => x \in gray' \cup grayagain' \cup weak'
  BY <1>2, <1>3 DEF Coloured, Waiting, Obj
<1>8. /\ \A o \in Obj : (Alive(o)' <=> Alive(o)) /\ (Exists(o) <=> Exists(o)') /\ ~IsDead(o)'
      /\ \A T : Shaded(T) => Shaded(T)'
      /\ Marked'
  BY <1>4, <1>5, <1>6, <1>7, MarkedStill
<1>9. Fields'
  BY <1>1, SameFields
<1>10. \A u \in tmudata' : u \in Obj /\ Alive(u)
  BY <1>1, KindsAssumption DEF HoldsAlive, Obj, Marks
<1>11. Colouring' /\ HoldsAlive' /\ Callers' /\ Chain' /\ SweepList'
  BY <1>3, <1>8, <1>10, NothingGained, Recoloured DEF Coloured, sweepVars, Marks
<1>12. Quiet' /\ Sweeping'
  BY DEF Quiet, Sweeping, atomicStates
<1>13. \A o \in S \cap Obj : marked'[o] \notin Whites
  BY <1>3 DEF Coloured
<1>14. ASSUME NEW u \in UpVals, marked'[u] = "gray" PROVE marked[u] = "gray" \/ Shaded(With(u))'
  <2>1. u \in Obj
    BY DEF Obj
  <2>2. CASE u \in M
    <3>1. With(u)' = Refs(u)
      BY <1>1, <1>5, <2>1, WithIsRefs
    <3>2. \A r \in Refs(u) \cap Obj : marked'[r] \notin Whites
      BY <1>3, <2>2 DEF Coloured
    <3>. QED BY <3>1, <3>2 DEF Shaded, IsWhite
  <2>3. CASE u \notin M
    BY <1>3, <1>14, <2>1, <2>3 DEF Coloured
  <2>. QED BY <2>2, <2>3
<1>. QED BY <1>5, <1>8, <1>9, <1>11, <1>12, <1>13, <1>14

LEMMA HeldAtomic ==
  ASSUME HeldInv, IInv, IInv', Atomic, closing = "no"
  PROVE  HeldInv'
<1>. DEFINE S == {UpValue(u) : u \in {w \in UpVals : IsOpen(w) /\ marked[w] = "gray"}}
<1>1. /\ Marks /\ gcstate' = "remark" /\ gray = {}
      /\ marked' = Marking(marked, NewlyMarked(S)) /\ gray' = ToTraverse(NewlyMarked(S))
      /\ grayagain' = grayagain /\ weak' = weak
      /\ UNCHANGED <<heapVars, sweepVars, tmudata, currentwhite, closing>>
  BY DEF Atomic, Step, Remarked, Marks, udataVars, sweepVars
<1>2. Fields /\ Colouring
  BY DEF HeldInv
<1>3. \A u \in UpVals : marked[u] = "gray" => UpValue(u) \in S /\ With(u) = {UpValue(u)}
  BY <1>2, Distinct DEF Colouring, With
<1>. HIDE DEF S
<1>4. /\ grayagain' \subseteq Tables \cup Threads /\ weak' \subseteq Tables
      /\ grayagain \cup weak \cup ToTraverse(NewlyMarked(S)) \subseteq gray' \cup grayagain' \cup weak'
      /\ gcstate' \in atomicStates
  BY <1>1, <1>2 DEF Fields, atomicStates
<1>5. /\ Fields' /\ Colouring' /\ HoldsAlive' /\ Callers' /\ Chain'
      /\ Quiet' /\ Sweeping' /\ SweepList' /\ Marked'
      /\ \A T : Shaded(T) => Shaded(T)'
      /\ \A o \in S \cap Obj : marked'[o] \notin Whites
      /\ \A o \in Obj : With(o)' = With(o)
      /\ \A u \in UpVals : marked'[u] = "gray" => marked[u] = "gray" \/ Shaded(With(u))'
  BY <1>1, <1>4, MarksOn
<1>6. \A u \in UpVals : marked'[u] = "gray" => Shaded(With(u))'
  <2>. SUFFICES ASSUME NEW u \in UpVals, marked[u] = "gray" PROVE Shaded(With(u))'
    BY <1>5
  <2>1. With(u)' = {UpValue(u)} /\ UpValue(u) \in S
    BY <1>3, <1>5 DEF Obj
  <2>2. \A r \in With(u)' \cap Obj : marked'[r] \notin Whites
    BY <1>5, <2>1
  <2>. QED BY <2>2 DEF Shaded, IsWhite
<1>. QED BY <1>1, <1>5, <1>6 DEF HeldInv, Finishing

LEMMA HeldTraverseWeak ==
  ASSUME HeldInv, IInv, IInv', TraverseWeak, closing = "no"
  PROVE  HeldInv'
<1>1. /\ Marks /\ gcstate = "remark" /\ gcstate' = "reweak" /\ gray = {}
      /\ marked' = Marking(marked, NewlyMarked({running, mt}))
      /\ gray' = weak \cup ToTraverse(NewlyMarked({running, mt}))
      /\ grayagain' = grayagain /\ weak' = {}
      /\ UNCHANGED <<heapVars, sweepVars, tmudata, currentwhite, closing>>
  BY DEF TraverseWeak, Step, Marks, udataVars, sweepVars, atomicStates
<1>2. Fields /\ Finishing
  BY DEF HeldInv
<1>3. /\ grayagain' \subseteq Tables \cup Threads /\ weak' \subseteq Tables /\ gcstate' \in atomicStates
      /\ grayagain \cup weak \cup ToTraverse(NewlyMarked({running, mt})) \subseteq gray' \cup grayagain' \cup weak'
  BY <1>1, <1>2 DEF Fields, atomicStates
<1>4. /\ Fields' /\ Colouring' /\ HoldsAlive' /\ Callers' /\ Chain'
      /\ Quiet' /\ Sweeping' /\ SweepList' /\ Marked'
      /\ \A T : Shaded(T) => Shaded(T)'
      /\ \A o \in {running, mt} \cap Obj : marked'[o] \notin Whites
      /\ \A o \in Obj : With(o)' = With(o)
      /\ \A u \in UpVals : marked'[u] = "gray" => marked[u] = "gray" \/ Shaded(With(u))'
  BY <1>1, <1>3, MarksOn
<1>5. \A u \in UpVals : marked'[u] = "gray" => Shaded(With(u))'
  <2>. SUFFICES ASSUME NEW u \in UpVals, marked[u] = "gray" PROVE Shaded(With(u))'
    BY <1>4
  <2>1. Shaded(With(u))
    BY <1>1, <1>2 DEF Finishing, atomicStates, Marks
  <2>2. With(u)' = With(u)
    BY <1>4 DEF Obj
  <2>. QED BY <1>4, <2>1, <2>2
<1>6. running' = running /\ mt' = mt
  BY <1>1, NothingGained
<1>7. Shaded({running, mt})'
  BY <1>4, <1>6 DEF Shaded, IsWhite
<1>. QED BY <1>1, <1>4, <1>5, <1>7 DEF HeldInv, Finishing

LEMMA HeldTraverseAgain ==
  ASSUME HeldInv, IInv, IInv', TraverseAgain, closing = "no"
  PROVE  HeldInv'
<1>1. /\ Marks /\ gcstate = "reweak" /\ gcstate' = "again" /\ gray = {}
      /\ marked' = marked /\ gray' = grayagain /\ grayagain' = {} /\ weak' = weak
      /\ UNCHANGED <<heapVars, sweepVars, tmudata, currentwhite, closing>>
  BY DEF TraverseAgain, Step, Marks, udataVars, sweepVars, atomicStates
<1>2. Fields /\ Finishing /\ Kinds
  BY DEF HeldInv, IInv
<1>3. marked' = Marking(marked, NewlyMarked({})) /\ ToTraverse(NewlyMarked({})) = {}
  <2>1. NewlyMarked({}) = {}
    BY <1>2, MarkedClosed
  <2>. QED BY <1>1, <1>2, <2>1 DEF Marking, ToTraverse, Kinds
<1>4. /\ grayagain' \subseteq Tables \cup Threads /\ weak' \subseteq Tables /\ gcstate' \in atomicStates
      /\ grayagain \cup weak \cup ToTraverse(NewlyMarked({})) \subseteq gray' \cup grayagain' \cup weak'
  BY <1>1, <1>2, <1>3 DEF Fields, atomicStates
<1>5. /\ Fields' /\ Colouring' /\ HoldsAlive' /\ Callers' /\ Chain'
      /\ Quiet' /\ Sweeping' /\ SweepList' /\ Marked'
      /\ \A T : Shaded(T) => Shaded(T)'
      /\ \A o \in Obj : Traversed(o)' = Traversed(o) /\ With(o)' = With(o)
  BY <1>1, <1>3, <1>4, MarksOn
<1>6. /\ running' = running /\ mt' = mt
  BY <1>1, NothingGained
<1>7. /\ \A u \in UpVals : marked[u] = "gray" => Shaded(With(u))
      /\ Shaded({running, mt}) /\ \A o \in weak : Shaded(Traversed(o))
  BY <1>1, <1>2 DEF Finishing, atomicStates, Marks
<1>8. UpVals \cup weak \subseteq Obj
  BY <1>2 DEF Fields, Obj
<1>9. \A u \in UpVals : marked'[u] = "gray" => Shaded(With(u))'
  BY <1>1, <1>5, <1>7, <1>8
<1>10. Shaded({running, mt})' /\ \A o \in weak' : Shaded(Traversed(o))'
  BY <1>1, <1>5, <1>6, <1>7, <1>8
<1>. QED BY <1>1, <1>5, <1>9, <1>10 DEF HeldInv, Finishing

(* marktmu: what waits for its finalizer keeps what it refers to.          *)
LEMMA HeldPreserve ==
  ASSUME HeldInv, IInv, IInv', Preserve, closing = "no"
  PROVE  HeldInv'
<1>. DEFINE M == White(UNION {With(u) : u \in tmudata'})
<1>1. /\ Marks /\ gcstate = "again" /\ gcstate' = "preserve" /\ gray = {} /\ gray' = M
      /\ separateudata(FALSE)
      /\ marked' = [o \in Obj |-> IF o \in tmudata' THEN "black" ELSE IF o \in M THEN "gray" ELSE marked[o]]
      /\ UNCHANGED <<heapVars, sweepVars, grayagain, weak, currentwhite, closing>>
  BY DEF Preserve, Step, Marks, sweepVars, atomicStates
<1>2. /\ Kinds /\ Fields /\ Marked /\ HoldsAlive /\ Finishing /\ Colouring /\ tmudata \subseteq Userdata
      /\ Whites = {currentwhite, otherwhite} /\ {currentwhite, otherwhite} \cap {"gray", "black", "free"} = {}
  BY TwoWhites DEF HeldInv, IInv, Kinds, Calls
<1>3. /\ \A x \in Obj : ~IsDead(x)
      /\ \A x \in Waiting : marked[x] = "gray" => x \in grayagain \cup weak
  BY <1>1, <1>2 DEF Marked
<1>4. /\ tmudata \subseteq tmudata' /\ tmudata' \subseteq Userdata
      /\ \A u \in tmudata' : u \in Obj /\ Alive(u)
  <2>1. tmudata \subseteq tmudata' /\ tmudata' \subseteq tmudata \cup Separated(FALSE)
    BY <1>1 DEF separateudata
  <2>2. \A u \in Separated(FALSE) : u \in Userdata /\ u \in Obj /\ Exists(u)
    BY DEF Separated, Linked, Obj
  <2>3. \A u \in tmudata : u \in Obj /\ Alive(u)
    BY <1>1, <1>2, KindsAssumption DEF HoldsAlive, Obj, Marks
  <2>. QED BY <1>2, <1>3, <2>1, <2>2, <2>3 DEF Alive, IsGarbage
<1>5. /\ \A r : r \in M <=> r \in Obj /\ IsWhite(r) /\ \E u \in tmudata' : r \in With(u)
      /\ M \subseteq Tables
  <2>1. \A r : r \in M <=> r \in Obj /\ IsWhite(r) /\ \E u \in tmudata' : r \in With(u)
    BY DEF White
  <2>. QED BY <1>2, <1>4, <2>1, WithIsRefs, Distinct
<1>. HIDE DEF M
<1>6. /\ \A u \in tmudata' : marked'[u] = "black" /\ u \in Obj /\ u \in Userdata
      /\ \A r \in M : marked'[r] = "gray" /\ r \in Obj /\ r \in Waiting /\ IsWhite(r)
      /\ \A x \in Obj : x \notin tmudata' \cup M => marked'[x] = marked[x]
  BY <1>1, <1>4, <1>5, Distinct DEF Waiting
<1>7. Grows
  BY <1>2, <1>3, <1>4, <1>6 DEF Grows, IsWhite, IsDead, Alive, Exists
<1>8. \A o \in Obj : Refs(o)' = Refs(o) /\ Traversed(o)' = Traversed(o) /\ With(o)' = With(o)
  BY <1>1, SameHeap
<1>9. \A x \in Obj \ tmudata' : marked'[x] = "black" => IsBlack(x)
  BY <1>6 DEF IsBlack
<1>10. \A x \in Waiting : marked'[x] = "gray" => x \in gray' \cup grayagain' \cup weak'
  <2>1. \A x \in Waiting : x \in Obj /\ x \notin tmudata'
    BY <1>4, Distinct DEF Waiting, Obj
  <2>. QED BY <1>1, <1>3, <1>6, <2>1
<1>11. /\ \A o \in Obj : (Alive(o)' <=> Alive(o)) /\ (Exists(o) <=> Exists(o)') /\ ~IsDead(o)'
       /\ \A T : Shaded(T) => Shaded(T)'
       /\ Marked'
  BY <1>1, <1>4, <1>7, <1>8, <1>9, <1>10, MarkedStill
<1>12. Fields'
  <2>1. grayagain' \subseteq Tables \cup Threads /\ weak' \subseteq Tables /\ gcstate' \in atomicStates
    BY <1>1, <1>2 DEF Fields, atomicStates
  <2>2. UNCHANGED <<heapVars, closing, sweepVars>>
    BY <1>1
  <2>. QED BY <1>2, <2>1, <2>2, SameFields
<1>13. Colouring' /\ HoldsAlive' /\ Callers' /\ Chain' /\ SweepList'
  <2>1. /\ \A u \in Userdata : marked'[u] # "gray"
        /\ \A th \in Threads : marked'[th] # "black"
        /\ \A u \in UpVals : marked'[u] # IF IsOpen(u) THEN "black" ELSE "gray"
    <3>1. /\ \A u \in Userdata : u \in Obj /\ u \notin M
          /\ \A x \in Threads \cup UpVals : x \in Obj /\ x \notin tmudata'
          /\ \A u \in UpVals : u \notin M
      BY <1>4, <1>5, Distinct DEF Obj
    <3>. QED BY <1>2, <1>6, <3>1 DEF Colouring, IsBlack
  <2>. QED BY <1>1, <1>4, <1>11, <2>1, NothingGained, Recoloured DEF sweepVars, Marks
<1>14. Finishing'
  <2>1. /\ \A u \in UpVals : marked[u] = "gray" => Shaded(With(u))
        /\ Shaded({running, mt}) /\ \A o \in weak : Shaded(Traversed(o))
        /\ grayagain \subseteq Threads /\ \A o \in grayagain : Shaded(Refs(o))
    BY <1>1, <1>2 DEF Finishing, atomicStates, Marks
  <2>2. UpVals \cup weak \cup grayagain \subseteq Obj /\ grayagain' = grayagain /\ weak' = weak
        /\ running' = running /\ mt' = mt
    BY <1>1, <1>2, NothingGained DEF Fields, Obj
  <2>3. \A u \in UpVals : marked'[u] = "gray" => marked[u] = "gray"
    <3>1. \A u \in UpVals : u \in Obj /\ u \notin tmudata' /\ u \notin M
      BY <1>4, <1>5, Distinct DEF Obj
    <3>. QED BY <1>6, <3>1
  <2>4. \A u \in UpVals : marked'[u] = "gray" => Shaded(With(u))'
    BY <1>8, <1>11, <2>1, <2>2, <2>3
  <2>5. Shaded({running, mt})' /\ \A o \in weak' : Shaded(Traversed(o))'
    BY <1>8, <1>11, <2>1, <2>2
  <2>6. grayagain' \subseteq Threads /\ \A o \in grayagain' : Shaded(Refs(o))'
    BY <1>8, <1>11, <2>1, <2>2
  <2>7. Shaded(tmudata)'
    BY <1>2, <1>6 DEF Shaded, IsWhite
  <2>8. ASSUME NEW u \in tmudata' PROVE Shaded(With(u))'
    <3>1. \A r \in With(u) \cap Obj : marked'[r] \notin Whites
      <4>1. \A r \in With(u) \cap Obj : IsWhite(r) => r \in M
        BY <1>5
      <4>2. \A r \in Obj : ~IsWhite(r) => marked'[r] \notin Whites
        BY <1>7 DEF Grows
      <4>. QED BY <1>2, <1>6, <4>1, <4>2
    <3>. QED BY <1>4, <1>8, <3>1 DEF Shaded, IsWhite
  <2>. QED BY <1>1, <2>4, <2>5, <2>6, <2>7, <2>8 DEF Finishing
<1>. QED BY <1>1, <1>11, <1>12, <1>13, <1>14 DEF HeldInv, Quiet, Sweeping

(* The end of atomic: what is not marked dies.  An entry of a weak table   *)
(* that stays has a key and a value that do not.                           *)
Ends ==
  /\ closing = "no" /\ gcstate = "preserve" /\ gray = {} /\ gcstate' = "sweepstring"
  /\ currentwhite' = otherwhite /\ sweepstrgc' = 0 /\ sweepgc' = Root
  /\ UNCHANGED <<meta, env, closureVars, threadVars, upvalVars, mt, listVars, tmudata, closing>>

Stay(t, n) ==
  /\ Entry(t, n) /\ val'[t][n] = val[t][n] /\ key'[t][n] = key[t][n]
  /\ t \in weak =>
       \A x \in {key[t][n], val[t][n]} \cap Obj : ~IsWhite(x) \/ (x \in Strings /\ marked'[x] = "gray")

LEMMA Clears ==
  ASSUME HeldInv, IInv, AtomicEnd, closing = "no"
  PROVE  /\ Ends
         /\ \A o \in Obj : marked'[o] = marked[o] \/ (o \in Strings /\ IsWhite(o) /\ marked'[o] = "gray")
         /\ \A o \in Obj : marked'[o] # marked[o] =>
              \E t \in weak, n \in Node : Entry(t, n) /\ o \in {key[t][n], val[t][n]}
         /\ \A t \in Tables, n \in Node : val'[t][n] = Nil \/ Stay(t, n)
         /\ key' \in [Tables -> [Node -> Value \cup {DeadKey}]] /\ val' \in [Tables -> [Node -> Value]]
<1>. DEFINE kept == {e \in weak \X Node : Entry(e[1], e[2]) /\ ~IsCleared(key[e[1]][e[2]], TRUE)}
            strings == Strings \cap UNION {{key[e[1]][e[2]], val[e[1]][e[2]]} : e \in kept}
            W == {s \in strings : IsWhite(s)}
<1>1. Ends
  BY DEF AtomicEnd, Ends, udataVars
<1>2. /\ marked' = Marking(marked, W)
      /\ val' = [t \in Tables |-> [n \in Node |-> IF Cleared(t, n) THEN Nil ELSE val[t][n]]]
      /\ key' = [t \in Tables |-> [n \in Node |->
                   IF Cleared(t, n) /\ Collectable(key[t][n]) THEN DeadKey ELSE key[t][n]]]
  BY DEF AtomicEnd
<1>3. Fields
  BY DEF HeldInv
<1>4. /\ W \subseteq Strings /\ \A s \in W : IsWhite(s) /\ s \notin Userdata \cup UpVals
      /\ \A t \in weak, n \in Node : Entry(t, n) /\ ~IsCleared(key[t][n], TRUE) =>
           \A s \in Strings \cap {key[t][n], val[t][n]} : IsWhite(s) => s \in W
  <2>1. ASSUME NEW t \in weak, NEW n \in Node, Entry(t, n), ~IsCleared(key[t][n], TRUE),
               NEW s \in Strings \cap {key[t][n], val[t][n]}, IsWhite(s)
        PROVE  s \in W
    <3>1. <<t, n>> \in kept
      BY <2>1
    <3>. HIDE DEF kept
    <3>2. {key[t][n], val[t][n]} \in {{key[e[1]][e[2]], val[e[1]][e[2]]} : e \in kept}
      <4>1. {key[t][n], val[t][n]} = {key[<<t, n>>[1]][<<t, n>>[2]], val[<<t, n>>[1]][<<t, n>>[2]]}
        OBVIOUS
      <4>. QED BY <3>1, <4>1, Zenon
    <3>3. s \in strings
      BY <2>1, <3>2
    <3>. QED BY <2>1, <3>3
  <2>2. W \subseteq Strings /\ \A s \in W : IsWhite(s)
    OBVIOUS
  <2>3. \A s \in Strings : s \notin Userdata \cup UpVals
    BY Distinct
  <2>. QED BY <2>1, <2>2, <2>3
<1>8. ASSUME NEW s \in W PROVE \E t \in weak, n \in Node : Entry(t, n) /\ s \in {key[t][n], val[t][n]}
  <2>. DEFINE Pair(e) == {key[e[1]][e[2]], val[e[1]][e[2]]}
  <2>1. \A e \in kept : e[1] \in weak /\ e[2] \in Node /\ Entry(e[1], e[2])
    OBVIOUS
  <2>. HIDE DEF kept
  <2>2. \E e \in kept : s \in Pair(e)
    OBVIOUS
  <2>. QED BY <2>1, <2>2
<1>. HIDE DEF W, strings, kept
<1>5. \A o \in Obj : IF o \in W THEN marked'[o] = "gray" ELSE marked'[o] = marked[o]
  BY <1>2, <1>4 DEF Marking, ColourOf
<1>6. ASSUME NEW t \in Tables, NEW n \in Node, val'[t][n] # Nil PROVE Stay(t, n)
  <2>1. ~Cleared(t, n)
    BY <1>2, <1>6
  <2>2. val'[t][n] = val[t][n] /\ key'[t][n] = key[t][n]
    BY <1>2, <2>1
  <2>3. Entry(t, n)
    BY <1>6, <2>2 DEF Entry
  <2>4. key[t][n] \in Value /\ val[t][n] \in Value
    BY <1>3, <2>3 DEF Fields
  <2>5. ASSUME t \in weak, NEW x \in {key[t][n], val[t][n]} \cap Obj
        PROVE  ~IsWhite(x) \/ (x \in Strings /\ marked'[x] = "gray")
    <3>1. ~IsCleared(key[t][n], TRUE) /\ ~IsCleared(val[t][n], FALSE)
      BY <2>1, <2>3, <2>5 DEF Cleared, IsCleared
    <3>2. Collectable(x)
      BY <2>4, <2>5, Distinct DEF Value, Collectable
    <3>3. x \in Strings \/ ~IsWhite(x)
      BY <2>5, <3>1, <3>2 DEF IsCleared
    <3>. QED BY <1>4, <1>5, <2>3, <2>5, <3>1, <3>3
  <2>. QED BY <2>2, <2>3, <2>5 DEF Stay
<1>7. key' \in [Tables -> [Node -> Value \cup {DeadKey}]] /\ val' \in [Tables -> [Node -> Value]]
  BY <1>2, <1>3 DEF Fields, Value
<1>. QED BY <1>1, <1>4, <1>5, <1>6, <1>7, <1>8

LEMMA HeldAtomicEnd ==
  ASSUME HeldInv, IInv, IInv', AtomicEnd, closing = "no"
  PROVE  /\ HeldInv'
         /\ Gain(Tables, {Nil})
<1>1. /\ Ends
      /\ \A o \in Obj : marked'[o] = marked[o] \/ (o \in Strings /\ IsWhite(o) /\ marked'[o] = "gray")
      /\ \A t \in Tables, n \in Node : val'[t][n] = Nil \/ Stay(t, n)
      /\ key' \in [Tables -> [Node -> Value \cup {DeadKey}]] /\ val' \in [Tables -> [Node -> Value]]
  BY Clears
<1>2. /\ Kinds /\ Fields /\ HoldsAlive /\ Colouring /\ Chain /\ Calls
      /\ gcstate' = "sweepstring" /\ closing' = closing /\ closing = "no" /\ currentwhite' = otherwhite
      /\ tmudata' = tmudata /\ callee' = callee /\ running' = running /\ mt' = mt /\ env' = env /\ place' = place
  BY <1>1 DEF HeldInv, IInv, Ends, threadVars, upvalVars
<1>3. /\ \A x \in Obj : ~IsDead(x)
      /\ \A x \in Obj \ tmudata : IsBlack(x) => Shaded(Refs(x))
      /\ \A x \in Waiting : marked[x] = "gray" => x \in grayagain \cup weak
      /\ Shaded({mainthread, registry})
  BY <1>1 DEF HeldInv, Marked, Marks, atomicStates, Ends
<1>4. /\ \A u \in UpVals : marked[u] = "gray" => Shaded(With(u))
      /\ Shaded({running, mt}) /\ \A o \in weak : Shaded(Traversed(o))
      /\ grayagain \subseteq Threads /\ \A o \in grayagain : Shaded(Refs(o))
      /\ Shaded(tmudata) /\ \A o \in tmudata : Shaded(With(o))
  BY <1>1 DEF HeldInv, Finishing, atomicStates, Ends
<1>5. /\ otherwhite' = currentwhite
      /\ Whites = {currentwhite, otherwhite} /\ currentwhite # otherwhite
      /\ {currentwhite, otherwhite} \cap {"gray", "black", "free"} = {}
  BY <1>2, TwoWhites DEF Kinds, otherwhite
<1>6. /\ \A o \in Obj : (Exists(o)' <=> Exists(o)) /\ (Alive(o) <=> Exists(o))
      /\ \A o \in Obj : Exists(o) /\ (~IsWhite(o) \/ marked'[o] = "gray") => Alive(o)'
      /\ \A o \in Obj : Alive(o)' => Exists(o) /\ (~IsWhite(o) \/ o \in Strings)
  <2>1. \A o \in Obj : marked[o] # otherwhite
    BY <1>3 DEF IsDead
  <2>2. \A o \in Obj : Exists(o)' <=> Exists(o)
    BY <1>1, <1>5 DEF Exists, IsWhite
  <2>3. \A o \in Obj : Alive(o) <=> Exists(o)
    BY <1>3 DEF Alive, IsGarbage
  <2>4. \A o \in Obj : Alive(o)' <=> Exists(o) /\ (marked'[o] # currentwhite \/ o \in Fixed \cup {mainthread})
    BY <1>5, <2>2 DEF Alive, IsGarbage, IsDead
  <2>5. \A o \in Fixed \cup {mainthread} : o \in Strings \/ (o \in Obj => ~IsWhite(o))
    BY <1>3, TraversedAssumption DEF Shaded
  <2>6. \A o \in Obj : ~IsWhite(o) => marked'[o] = marked[o] /\ marked[o] # currentwhite
    BY <1>1, <1>5 DEF IsWhite
  <2>7. \A o \in Obj : IsWhite(o) => marked[o] = currentwhite
    BY <1>5, <2>1 DEF IsWhite
  <2>8. "gray" # currentwhite
    BY <1>5
  <2>9. \A o \in Obj : Exists(o) /\ (~IsWhite(o) \/ marked'[o] = "gray") => Alive(o)'
    BY <2>4, <2>6, <2>8
  <2>10. \A o \in Obj : Alive(o)' => Exists(o) /\ (~IsWhite(o) \/ o \in Strings)
    BY <1>1, <2>4, <2>5, <2>7
  <2>. QED BY <2>2, <2>3, <2>9, <2>10
<1>7. \A th \in Threads : Exists(th) /\ ~IsWhite(th) => Shaded(Refs(th))
  <2>. SUFFICES ASSUME NEW th \in Threads, Exists(th), ~IsWhite(th) PROVE Shaded(Refs(th))
    OBVIOUS
  <2>1. marked[th] = "gray"
    BY <1>2, <1>5 DEF Colouring, IsBlack, IsWhite, Exists, Kinds, Colours, Obj
  <2>2. th \notin weak /\ th \in Waiting
    BY <1>2, Distinct DEF Fields, Waiting
  <2>. QED BY <1>3, <1>4, <2>1, <2>2
<1>8. Gain(Tables, {Nil})
  <2>1. \A t \in Tables, n \in Node :
          /\ val'[t][n] = val[t][n] \/ (t \in Tables /\ val'[t][n] \in {Nil})
          /\ val'[t][n] # Nil => val[t][n] # Nil /\ key'[t][n] = key[t][n]
    BY <1>1 DEF Stay, Entry
  <2>2. \A u \in UpVals : UpValue(u)' = UpValue(u)
    BY <1>1 DEF Ends, UpValue, IsOpen, upvalVars, threadVars
  <2>3. UNCHANGED <<meta, env, proto, upval, k, inner, callee, stack>>
    BY <1>1 DEF Ends, closureVars, threadVars
  <2>. QED BY <2>1, <2>2, <2>3, Gains
<1>9. HoldsAlive'
  <2>1. \A o \in (Roots \cup {running} \cup tmudata) \ {Nil} : o \in Obj /\ Exists(o) /\ ~IsWhite(o)
    <3>1. \A o \in (Roots \cup {running} \cup tmudata) \ {Nil} : o \in Obj /\ Exists(o)
      BY <1>2, KindsAssumption, TraversedAssumption DEF Roots, Obj, Fields, Kinds, Calls, HoldsAlive, Alive
    <3>2. mainthread \in Threads /\ env[mainthread] \in Refs(mainthread)
      BY KindsAssumption, RefsOf DEF RefersTo, Obj
    <3>3. Shaded(Refs(mainthread))
      BY <1>3, <1>7, <3>1, <3>2, Distinct DEF Shaded, Obj, Roots
    <3>. QED BY <1>3, <1>4, <3>1, <3>2, <3>3 DEF Shaded, Roots
  <2>2. (Roots \cup {running} \cup tmudata)' = Roots \cup {running} \cup tmudata
    BY <1>2 DEF Roots
  <2>3. \A o \in (Roots \cup {running} \cup tmudata)' \ {Nil} : Alive(o)'
    BY <1>6, <2>1, <2>2
  <2>4. ASSUME NEW o \in Obj, Alive(o)', NEW r \in Refs(o)' \cap Obj PROVE Alive(r)'
    <3>1. r \in Refs(o) /\ Exists(r)
      BY <1>2, <1>6, <1>8, <2>4, Distinct DEF Gain, HoldsAlive
    <3>2. o \notin Strings
      BY <2>4, <3>1, RefsOf, Distinct DEF RefersTo
    <3>3. Exists(o) /\ ~IsWhite(o)
      BY <1>6, <2>4, <3>2
    <3>4. marked[o] \in {"gray", "black"}
      BY <1>2, <1>5, <3>3 DEF Kinds, Colours, Exists, IsWhite
    <3>5. CASE Shaded(Refs(o))
      BY <1>6, <2>4, <3>1, <3>5 DEF Shaded
    <3>6. CASE o \in UpVals \cup Userdata
      <4>1. Refs(o) = With(o)
        BY <1>2, <3>6, WithIsRefs
      <4>2. Shaded(Refs(o))
        BY <1>2, <1>3, <1>4, <2>4, <3>4, <3>6, <4>1, Distinct DEF Colouring, IsBlack
      <4>. QED BY <3>5, <4>2
    <3>7. CASE o \in Waiting
      <4>1. CASE marked[o] = "black"
        <5>1. o \notin tmudata
          BY <1>2, <3>7, Distinct DEF Calls, Waiting
        <5>. QED BY <1>3, <2>4, <3>5, <4>1, <5>1 DEF IsBlack
      <4>2. CASE o \in grayagain
        BY <1>4, <3>5, <4>2
      <4>3. CASE o \in weak
        <5>1. o \in Tables /\ Shaded(Traversed(o)) /\ meta'[o] = meta[o]
          BY <1>1, <1>2, <1>4, <4>3 DEF Fields, Ends
        <5>2. RefersTo(o, r)'
          BY <2>4, RefsNext
        <5>3. CASE r = meta[o]
          BY <1>6, <2>4, <3>1, <5>1, <5>3, TraversedOf DEF Shaded
        <5>4. CASE \E n \in Node : val'[o][n] # Nil /\ r \in {val'[o][n], key'[o][n]}
          <6>1. PICK n \in Node : val'[o][n] # Nil /\ r \in {val'[o][n], key'[o][n]}
            BY <5>4
          <6>2. Stay(o, n)
            BY <1>1, <5>1, <6>1
          <6>3. ~IsWhite(r) \/ marked'[r] = "gray"
            BY <2>4, <4>3, <6>1, <6>2 DEF Stay
          <6>. QED BY <1>6, <2>4, <3>1, <6>3
        <5>. QED BY <2>4, <5>1, <5>2, <5>3, <5>4, Distinct DEF RefersTo, Entry
      <4>. QED BY <1>3, <3>4, <3>7, <4>1, <4>2, <4>3
    <3>. QED BY <2>4, <3>2, <3>6, <3>7 DEF Obj, Waiting
  <2>. QED BY <2>3, <2>4 DEF HoldsAlive
<1>10. Callers' /\ Chain'
  <2>. DEFINE S == {th \in Threads : Exists(th) /\ ~IsWhite(th)}
  <2>1. Follow(S)
    <3>1. mainthread \in S
      <4>1. mainthread \in Threads /\ mainthread \in Obj /\ mainthread # Nil /\ mainthread \in Roots
        BY KindsAssumption, Distinct DEF Obj, Roots
      <4>. QED BY <1>2, <1>3, <4>1 DEF HoldsAlive, Shaded, Alive
    <3>2. ASSUME NEW th \in S, callee[th] # Nil PROVE callee[th] \in S
      <4>1. callee[th] \in Threads /\ callee[th] \in Refs(th) /\ th \in Obj /\ callee[th] \in Obj
        BY <1>2, <3>2, RefsOf DEF Fields, RefersTo, Obj
      <4>2. Exists(callee[th])
        BY <1>2, <1>6, <3>2, <4>1 DEF HoldsAlive
      <4>3. ~IsWhite(callee[th])
        BY <1>7, <3>2, <4>1 DEF Shaded
      <4>. QED BY <4>1, <4>2, <4>3
    <3>. QED BY <3>1, <3>2 DEF Follow
  <2>2. \A th \in Threads : callee[th] # Nil => th \in S
    BY <1>2, <2>1 DEF Chain
  <2>3. \A th \in Threads : callee[th] # Nil => Alive(th)'
    BY <1>6, <2>2 DEF Obj
  <2>. QED BY <1>2, <2>3, SameChain DEF Callers
<1>11. Fields'
  <2>1. Root \subseteq Obj \ Strings
    BY RootIsAll
  <2>2. \A t \in Tables, n \in Node : Entry(t, n)' => key'[t][n] \in Value
    BY <1>1, <1>2 DEF Entry, Stay, Fields
  <2>. QED BY <1>1, <1>2, <2>1, <2>2 DEF Fields, Ends, closureVars, threadVars, upvalVars, listVars
<1>12. Colouring'
  <2>1. Userdata \cup Threads \cup UpVals \subseteq Obj /\ \A o \in Userdata \cup Threads \cup UpVals : o \notin Strings
    BY Distinct DEF Obj
  <2>2. \A o \in Userdata \cup Threads \cup UpVals : marked'[o] = marked[o]
    BY <1>1, <2>1
  <2>3. \A u \in UpVals : (IsOpen(u)' <=> IsOpen(u)) /\ (IsOpen(u) => place[u][1] \in Threads)
    BY <1>2 DEF IsOpen, Fields
  <2>. QED BY <1>2, <1>6, <2>1, <2>2, <2>3 DEF Colouring, IsBlack
<1>13. SweepList' /\ Sweeping'
  <2>1. sweepgc' = Root /\ sweepstrgc' = 0
    BY <1>1 DEF Ends
  <2>2. \A o : IsOpen(o)' <=> IsOpen(o)
    BY <1>2 DEF IsOpen
  <2>3. SweepList'
    BY <1>6, <2>1, <2>2, RootIsAll DEF SweepList
  <2>4. \A o \in Obj : Exists(o)' /\ o \notin tmudata' => ToSweep(o)'
    BY <1>2, <1>6, <2>1, <2>2, RootIsAll DEF ToSweep
  <2>. QED BY <2>3, <2>4 DEF Sweeping
<1>14. Quiet' /\ Marked' /\ Finishing'
  BY <1>2 DEF Quiet, Marked, Marks, Finishing, atomicStates
<1>. QED BY <1>8, <1>9, <1>10, <1>11, <1>12, <1>13, <1>14 DEF HeldInv

--------------------------------------------------------------------------------
(* Sweeping: what is freed was dead, and the rest lives on.                *)
LEMMA SweptAlive ==
  ASSUME HeldInv, IInv, NEW S, \A o \in S \cap Obj : Exists(o), marked' = Swept(S), UNCHANGED currentwhite
  PROVE  /\ \A o \in Obj : Alive(o)' <=> Alive(o)
         /\ \A o \in Obj : Exists(o)' => Exists(o)
         /\ \A o \in Obj \ S : marked'[o] = marked[o]
         /\ \A o \in Obj : o \in S => marked'[o] = IF IsGarbage(o) THEN "free" ELSE currentwhite
         /\ \A o \in Obj : marked'[o] \in {marked[o], "free", currentwhite}
         /\ currentwhite \notin {"gray", "black", "free"}
<1>1. /\ otherwhite' = otherwhite /\ otherwhite # currentwhite
      /\ currentwhite \notin {"gray", "black", "free"} /\ otherwhite \notin {"gray", "black", "free"}
  BY TwoWhites DEF IInv, Kinds, otherwhite
<1>2. \A o \in Obj : marked'[o] = IF o \notin S THEN marked[o] ELSE IF IsGarbage(o) THEN "free" ELSE currentwhite
  BY DEF Swept
<1>3. \A o \in Obj : Alive(o)' <=> Alive(o)
  BY <1>1, <1>2 DEF Alive, IsGarbage, IsDead, Exists
<1>4. \A o \in Obj : Exists(o)' => Exists(o)
  BY <1>2 DEF Exists
<1>. QED BY <1>1, <1>2, <1>3, <1>4

LEMMA HeldOn ==
  ASSUME HeldInv, IInv, \A o \in Obj : Alive(o)' <=> Alive(o), Gain({}, {}),
         UNCHANGED <<env, mt, running, callee, tmudata, closing>>
  PROVE  HoldsAlive' /\ Callers' /\ Chain'
<1>1. Kinds /\ Fields /\ HoldsAlive /\ Callers /\ Chain /\ Calls
  BY DEF HeldInv, IInv
<1>2. (Roots \cup {running} \cup tmudata)' = Roots \cup {running} \cup tmudata
  BY DEF Roots
<1>3. \A o \in (Roots \cup {running} \cup tmudata) \ {Nil} : o \in Obj
  BY <1>1, KindsAssumption, TraversedAssumption DEF Roots, Obj, Fields, Kinds, Calls
<1>4. closing # "closed" => \A o \in (Roots \cup {running} \cup tmudata)' \ {Nil} : Alive(o)'
  BY <1>1, <1>2, <1>3 DEF HoldsAlive
<1>5. closing # "closed" => \A o \in Obj : Alive(o)' => \A r \in Refs(o)' \cap Obj : Alive(r)'
  BY <1>1 DEF HoldsAlive, Gain
<1>6. Threads \subseteq Obj
  BY DEF Obj
<1>. QED BY <1>1, <1>4, <1>5, <1>6, SameChain DEF HoldsAlive, Callers

LEMMA HeldSweepString ==
  ASSUME HeldInv, IInv, IInv', SweepString, closing = "no"
  PROVE  HeldInv'
<1>. DEFINE chain == {s \in Strings : Exists(s) /\ hash[s] = sweepstrgc}
<1>1. /\ gcstate = "sweepstring" /\ marked' = Swept(chain) /\ sweepstrgc' = sweepstrgc + 1
      /\ gcstate' = IF sweepstrgc' >= Size THEN "sweep" ELSE gcstate
      /\ UNCHANGED <<heapVars, listVars, sweepgc, tmudata, currentwhite, closing>>
  BY DEF SweepString, udataVars
<1>2. \A o \in chain \cap Obj : Exists(o)
  OBVIOUS
<1>3. \A o \in chain : o \in Strings
  OBVIOUS
<1>4. \A o \in Strings : Exists(o) /\ o \notin chain => hash[o] # sweepstrgc
  OBVIOUS
<1>. HIDE DEF chain
<1>5. /\ \A o \in Obj : Alive(o)' <=> Alive(o)
      /\ \A o \in Obj : Exists(o)' => Exists(o)
      /\ \A o \in Obj \ chain : marked'[o] = marked[o]
      /\ \A o \in Obj : o \in chain => marked'[o] = IF IsGarbage(o) THEN "free" ELSE currentwhite
  BY <1>1, <1>2, SweptAlive
<1>6. Fields /\ Colouring /\ Sweeping /\ SweepList
  BY DEF HeldInv
<1>7. HoldsAlive' /\ Callers' /\ Chain'
  <2>1. Gain({}, {}) /\ UNCHANGED <<env, mt, running, callee, tmudata, closing>>
    BY <1>1, NothingGained
  <2>. QED BY <1>5, <2>1, HeldOn
<1>8. /\ gcstate' \in {"sweepstring", "sweep"}
      /\ place' = place /\ tmudata' = tmudata /\ closing' = closing /\ sweepgc' = sweepgc
      /\ currentwhite' = currentwhite /\ \A o : IsOpen(o)' <=> IsOpen(o)
  BY <1>1, NothingGained DEF IsOpen
<1>9. Fields'
  <2>1. sweepstrgc' \in Nat
    BY <1>1, <1>6 DEF Fields
  <2>. QED BY <1>1, <1>6, <1>8, <2>1
       DEF Fields, Entry, heapVars, tableVars, closureVars, threadVars, upvalVars, listVars
<1>10. \A o \in Obj \ Strings : marked'[o] = marked[o]
  BY <1>3, <1>5
<1>11. Colouring'
  <2>1. Userdata \cup Threads \cup UpVals \subseteq Obj \ Strings
    BY Distinct DEF Obj
  <2>2. \A u \in UpVals : IsOpen(u) => place[u][1] \in Threads
    BY <1>6 DEF IsOpen, Fields
  <2>. QED BY <1>6, <1>8, <1>10, <2>1, <2>2 DEF Colouring, IsBlack, Exists
<1>12. SweepList'
  BY <1>6, <1>8, <1>10 DEF SweepList, Fields, Exists
<1>13. Sweeping'
  <2>. SUFFICES ASSUME NEW o \in Obj, Exists(o)', o \notin tmudata, marked'[o] # currentwhite
                PROVE  ToSweep(o)'
    BY <1>8 DEF Sweeping
  <2>1. o \notin chain /\ Exists(o) /\ marked[o] # currentwhite
    BY <1>5 DEF Exists
  <2>2. ToSweep(o)
    BY <1>1, <1>6, <2>1 DEF Sweeping
  <2>3. CASE o \in Strings
    <3>1. hash[o] >= sweepstrgc /\ hash[o] # sweepstrgc /\ hash[o] \in 0 .. Size - 1
      BY <1>4, <2>1, <2>2, <2>3, TraversedAssumption DEF ToSweep
    <3>2. sweepstrgc \in Nat /\ Size \in Nat
      BY <1>6, TraversedAssumption DEF Fields
    <3>3. hash[o] >= sweepstrgc' /\ ~(sweepstrgc' >= Size)
      BY <1>1, <3>1, <3>2
    <3>. QED BY <1>1, <2>3, <3>3 DEF ToSweep
  <2>4. CASE o \notin Strings
    BY <1>8, <2>2, <2>4 DEF ToSweep
  <2>. QED BY <2>3, <2>4
<1>14. Quiet' /\ Marked' /\ Finishing'
  BY <1>8 DEF Quiet, Marked, Marks, Finishing, atomicStates
<1>. QED BY <1>7, <1>9, <1>11, <1>12, <1>13, <1>14 DEF HeldInv

(* The open upvalues of a thread that is freed are closed or freed.        *)
LEMMA HeldSweepStep ==
  ASSUME HeldInv, IInv, IInv', SweepStep, closing = "no"
  PROVE  /\ HeldInv'
         /\ Gain({}, {})
<1>. DEFINE S == {x \in sweepgc : Cardinality({y \in sweepgc : Rank[y] < Rank[x]}) < GCSWEEPMAX}
            open == {u \in UpVals : IsOpen(u) /\ place[u][1] \in S}
            closing_ == {u \in open : ~IsGarbage(u) /\ IsGarbage(place[u][1])}
            gone == {u \in open : IsGarbage(u)} \cup closing_
<1>1. /\ gcstate = "sweep" /\ marked' = Swept(S \cup open)
      /\ place' = [u \in UpVals |-> IF u \in gone THEN Closed ELSE place[u]]
      /\ value' = [u \in UpVals |-> IF u \in gone THEN UpValue(u) ELSE value[u]]
      /\ sweepgc' \in {sweepgc \ S, (sweepgc \ S) \cup closing_}
      /\ gcstate' = IF sweepgc' = {} THEN "finalize" ELSE gcstate
      /\ UNCHANGED <<tableVars, env, closureVars, threadVars, mt, listVars, sweepstrgc,
                     tmudata, currentwhite, closing>>
  BY DEF SweepStep, Sweep, udataVars
<1>2. S \subseteq sweepgc
  OBVIOUS
<1>. HIDE DEF S
<1>3. /\ \A u : u \in open <=> u \in UpVals /\ IsOpen(u) /\ place[u][1] \in S
      /\ \A u : u \in closing_ <=> u \in open /\ ~IsGarbage(u) /\ IsGarbage(place[u][1])
      /\ \A u : u \in gone <=> u \in open /\ (IsGarbage(u) \/ IsGarbage(place[u][1]))
  OBVIOUS
<1>. HIDE DEF open, closing_, gone
<1>4. Fields /\ Colouring /\ Sweeping /\ SweepList
  BY DEF HeldInv
<1>5. \A o \in (S \cup open) \cap Obj : Exists(o)
  BY <1>2, <1>3, <1>4 DEF SweepList, Colouring
<1>6. /\ \A o \in Obj : Alive(o)' <=> Alive(o)
      /\ \A o \in Obj : Exists(o)' => Exists(o)
      /\ \A o \in Obj \ (S \cup open) : marked'[o] = marked[o]
      /\ \A o \in Obj : o \in S \cup open => marked'[o] = IF IsGarbage(o) THEN "free" ELSE currentwhite
      /\ \A o \in Obj : marked'[o] \in {marked[o], "free", currentwhite}
      /\ currentwhite \notin {"gray", "black", "free"}
  BY <1>1, <1>5, SweptAlive
<1>7. \A u \in UpVals : /\ IsOpen(u)' <=> IsOpen(u) /\ u \notin gone
                        /\ u \notin gone => place'[u] = place[u]
                        /\ UpValue(u)' = UpValue(u)
                        /\ UpValue(u) \in Value
  <2>. SUFFICES ASSUME NEW u \in UpVals
                PROVE  /\ IsOpen(u)' <=> IsOpen(u) /\ u \notin gone
                       /\ u \notin gone => place'[u] = place[u]
                       /\ UpValue(u)' = UpValue(u)
                       /\ UpValue(u) \in Value
    OBVIOUS
  <2>1. stack' = stack
    BY <1>1 DEF threadVars
  <2>2. IsOpen(u) => place[u] \in Threads \X Level
    BY <1>4 DEF Fields, IsOpen
  <2>3. UpValue(u) \in Value
    BY <1>4, <2>2 DEF Fields, UpValue
  <2>4. CASE u \in gone
    <3>1. place'[u] = Closed /\ value'[u] = UpValue(u)
      BY <1>1, <2>4
    <3>. QED BY <2>3, <2>4, <3>1 DEF IsOpen, UpValue
  <2>5. CASE u \notin gone
    <3>1. place'[u] = place[u] /\ value'[u] = value[u]
      BY <1>1, <2>5
    <3>. QED BY <2>1, <2>3, <2>5, <3>1 DEF IsOpen, UpValue
  <2>. QED BY <2>4, <2>5
<1>8. HoldsAlive' /\ Callers' /\ Chain' /\ Gain({}, {})
  <2>1. UNCHANGED <<meta, key, val, env, proto, upval, k, inner, callee, stack, mt, running, tmudata, closing>>
    BY <1>1 DEF tableVars, closureVars, threadVars
  <2>2. Gain({}, {})
    BY <1>7, <2>1, Gains
  <2>. QED BY <1>6, <2>1, <2>2, HeldOn
<1>9. /\ gcstate' \in {"sweep", "finalize"} /\ (gcstate' = "finalize" => sweepgc' = {})
      /\ tmudata' = tmudata /\ closing' = closing /\ currentwhite' = currentwhite
      /\ sweepgc \ S \subseteq sweepgc' /\ sweepgc' \subseteq (sweepgc \ S) \cup closing_
  BY <1>1
<1>10. Fields'
  <2>1. sweepgc' \subseteq Obj \ Strings
    BY <1>3, <1>4, <1>9, Distinct DEF Fields, Obj
  <2>2. place' \in [UpVals -> (Threads \X Level) \cup {Closed}] /\ value' \in [UpVals -> Value]
    BY <1>1, <1>4, <1>7 DEF Fields
  <2>3. gcstate' \in {"pause", "propagate", "sweepstring", "sweep", "finalize"} \cup atomicStates
    BY <1>9
  <2>. QED BY <1>1, <1>4, <2>1, <2>2, <2>3 DEF Fields, Entry, tableVars, closureVars, threadVars, listVars
<1>11. Colouring'
  <2>1. Userdata \cup Threads \cup UpVals \subseteq Obj
    BY DEF Obj
  <2>2. /\ \A u \in Userdata : marked'[u] # "gray"
        /\ \A th \in Threads : marked'[th] # "black"
    BY <1>4, <1>6, <2>1 DEF Colouring, IsBlack
  <2>3. ASSUME NEW u \in UpVals, IsOpen(u)' PROVE Exists(u)' /\ ~IsBlack(u)' /\ Exists(place[u][1])'
    <3>1. /\ IsOpen(u) /\ u \notin gone /\ place'[u] = place[u] /\ place[u][1] \in Threads /\ u \in Obj
          /\ Exists(u) /\ ~IsBlack(u) /\ Exists(place[u][1]) /\ place[u][1] \in Obj
      BY <1>4, <1>7, <2>1, <2>3 DEF Colouring, Fields, IsOpen
    <3>2. u \notin S
      BY <1>2, <1>4, <3>1 DEF SweepList
    <3>3. u \in open => ~IsGarbage(u) /\ ~IsGarbage(place[u][1])
      BY <1>3, <3>1
    <3>4. place[u][1] \in S => u \in open
      BY <1>3, <3>1
    <3>5. place[u][1] \notin UpVals
      BY <3>1, Distinct
    <3>6. place[u][1] \notin open
      BY <1>3, <3>5
    <3>. QED BY <1>6, <3>1, <3>2, <3>3, <3>4, <3>6 DEF Exists, IsBlack
  <2>4. ASSUME NEW u \in UpVals, ~IsOpen(u)' PROVE marked'[u] # "gray"
    <3>1. CASE u \in gone
      BY <1>3, <1>6, <2>1, <3>1
    <3>2. CASE u \notin gone
      BY <1>4, <1>6, <1>7, <2>1, <2>4, <3>2 DEF Colouring
    <3>. QED BY <3>1, <3>2
  <2>. QED BY <2>2, <2>3, <2>4 DEF Colouring, IsBlack
<1>12. SweepList'
  <2>. SUFFICES ASSUME NEW o \in sweepgc' PROVE Exists(o)' /\ (o \in UpVals => ~IsOpen(o)')
    BY DEF SweepList
  <2>1. CASE o \in sweepgc \ S
    <3>1. o \in Obj /\ Exists(o) /\ (o \in UpVals => ~IsOpen(o))
      BY <1>4, <2>1 DEF SweepList, Fields
    <3>2. o \notin open
      BY <1>3, <3>1
    <3>. QED BY <1>6, <1>7, <2>1, <3>1, <3>2 DEF Exists
  <2>2. CASE o \in closing_
    <3>1. o \in open /\ o \in gone /\ ~IsGarbage(o) /\ o \in UpVals /\ o \in Obj
      BY <1>3, <2>2 DEF Obj
    <3>. QED BY <1>6, <1>7, <3>1 DEF Exists
  <2>. QED BY <1>9, <2>1, <2>2
<1>13. ASSUME NEW o \in Obj, Exists(o)', o \notin tmudata, marked'[o] # currentwhite
       PROVE  o \notin Strings /\ IF o \in UpVals /\ IsOpen(o)' THEN place'[o][1] \in sweepgc' ELSE o \in sweepgc'
  <2>1. o \notin S \cup open /\ Exists(o) /\ marked[o] # currentwhite
    BY <1>6, <1>13 DEF Exists
  <2>2. ToSweep(o)
    BY <1>1, <1>4, <1>13, <2>1 DEF Sweeping
  <2>3. o \notin Strings
    BY <1>1, <2>2 DEF ToSweep
  <2>4. CASE o \in UpVals /\ IsOpen(o)
    <3>1. place[o][1] \in sweepgc /\ place[o][1] \notin S /\ o \notin gone
      BY <1>3, <2>1, <2>2, <2>3, <2>4 DEF ToSweep
    <3>. QED BY <1>7, <1>9, <2>3, <2>4, <3>1
  <2>5. CASE ~(o \in UpVals /\ IsOpen(o))
    BY <1>7, <1>9, <2>1, <2>2, <2>3, <2>5 DEF ToSweep
  <2>. QED BY <2>4, <2>5
<1>14. Sweeping' /\ Quiet'
  BY <1>9, <1>13 DEF Sweeping, Quiet, ToSweep
<1>15. Marked' /\ Finishing'
  BY <1>9 DEF Marked, Marks, Finishing, atomicStates
<1>. QED BY <1>8, <1>10, <1>11, <1>12, <1>14, <1>15 DEF HeldInv

--------------------------------------------------------------------------------
LEMMA InitHeld == Init => HeldInv
<1>. SUFFICES ASSUME Init PROVE HeldInv
  OBVIOUS
<1>1. PICK h \in Heaps :
        /\ marked = [o \in Obj |-> IF o \in h.exists THEN currentwhite ELSE "free"]
        /\ meta = h.meta /\ key = h.key /\ val = h.val
        /\ env = h.env /\ proto = h.proto /\ upval = h.upval
        /\ k = h.k /\ inner = h.inner
        /\ stack = h.stack /\ place = h.place /\ value = h.value
  BY DEF Init
<1>. DEFINE X == h.exists
            Any == (Object \cap X) \cup {Nil, Number}
<1>2. /\ X \subseteq Obj /\ mainthread \in X /\ registry \in X
      /\ meta \in [Tables \cup Userdata -> (Tables \cap X) \cup {Nil}]
      /\ env \in [Closures \cup Userdata \cup Threads -> (Tables \cap X) \cup {Nil}]
      /\ key \in [Tables -> [Node -> Any]] /\ val \in [Tables -> [Node -> Any]]
      /\ proto \in [Closures -> (Protos \cap X) \cup {Nil}]
      /\ upval \in [Closures -> (UpVals \cap X) \cup {Nil}]
      /\ k \in [Protos -> (Strings \cap X) \cup {Nil}]
      /\ inner \in [Protos -> (Protos \cap X) \cup {Nil}]
      /\ stack \in [Threads -> [Level -> Any]]
      /\ value \in [UpVals -> Any]
      /\ place \in [UpVals -> ((Threads \cap X) \X Level) \cup {Closed}]
      /\ \A u \in UpVals : place[u] # Closed => u \in X
  <2>1. Any = ((Object \cap X) \cup {Nil}) \cup {Number}
    OBVIOUS
  <2>. QED BY <1>1, <2>1, HeapsAssumption
<1>. HIDE DEF X
<1>3. Any \subseteq Value /\ \A v \in Any \cap Obj : v \in X
  BY Distinct DEF Value
<1>. HIDE DEF Any
<1>4. /\ callee = [th \in Threads |-> Nil] /\ running = mainthread /\ mt = Nil /\ gcstate = "pause"
      /\ gray = {} /\ grayagain = {} /\ weak = {} /\ sweepstrgc = 0 /\ sweepgc = {}
      /\ tmudata = {} /\ closing = "no" /\ currentwhite \in Whites
      /\ mainthread \in Threads /\ registry \in Tables
  BY KindsAssumption, TraversedAssumption DEF Init
<1>5. /\ currentwhite # otherwhite /\ currentwhite \notin {"gray", "black", "free"}
      /\ "free" # otherwhite
  BY <1>4, TwoWhites
<1>6. \A o \in Obj : marked[o] = IF o \in X THEN currentwhite ELSE "free"
  BY <1>1 DEF X
<1>7. \A o \in Obj : (Exists(o) <=> o \in X) /\ (Alive(o) <=> o \in X)
  BY <1>5, <1>6 DEF Alive, Exists, IsGarbage, IsDead
<1>8. Fields
  <2>1. key \in [Tables -> [Node -> Value \cup {DeadKey}]] /\ val \in [Tables -> [Node -> Value]]
    BY <1>2, <1>3
  <2>2. \A t \in Tables, n \in Node : key[t][n] \in Value
    BY <1>2, <1>3
  <2>3. /\ proto \in [Closures -> Protos \cup {Nil}] /\ upval \in [Closures -> UpVals \cup {Nil}]
        /\ k \in [Protos -> Strings \cup {Nil}] /\ inner \in [Protos -> Protos \cup {Nil}]
    BY <1>2
  <2>4. stack \in [Threads -> [Level -> Value]] /\ value \in [UpVals -> Value]
    BY <1>2, <1>3
  <2>5. place \in [UpVals -> (Threads \X Level) \cup {Closed}]
    BY <1>2
  <2>. QED BY <1>4, <2>1, <2>2, <2>3, <2>4, <2>5 DEF Fields
<1>9. Colouring
  <2>1. Userdata \cup Threads \cup UpVals \subseteq Obj
    BY DEF Obj
  <2>2. \A u \in UpVals : IsOpen(u) => u \in X /\ place[u][1] \in X /\ place[u][1] \in Obj
    BY <1>2 DEF IsOpen
  <2>3. \A o \in Obj : marked[o] # "gray" /\ marked[o] # "black"
    BY <1>5, <1>6
  <2>. QED BY <1>7, <2>1, <2>2, <2>3 DEF Colouring, IsBlack
<1>10. HoldsAlive
  <2>1. \A o \in (Roots \cup {running} \cup tmudata) \ {Nil} : o \in X
    BY <1>2, <1>4 DEF Roots
  <2>2. ASSUME NEW o \in Obj, NEW r \in Obj, RefersTo(o, r) PROVE r \in X
    <3>1. r \notin {Nil, Number}
      BY <2>2, Distinct
    <3>2. \A u \in UpVals : UpValue(u) \in Any
      <4>1. \A u \in UpVals : IsOpen(u) => place[u] \in Threads \X Level
        BY <1>2 DEF IsOpen
      <4>. QED BY <1>2, <4>1 DEF UpValue
    <3>3. CASE o \in Tables
      BY <1>2, <1>3, <2>2, <3>1, <3>3, Distinct DEF RefersTo
    <3>4. CASE o \in Closures
      BY <1>2, <2>2, <3>1, <3>4, Distinct DEF RefersTo
    <3>5. CASE o \in Protos
      BY <1>2, <2>2, <3>1, <3>5, Distinct DEF RefersTo
    <3>6. CASE o \in Threads
      BY <1>2, <1>3, <1>4, <2>2, <3>1, <3>6, Distinct DEF RefersTo
    <3>7. CASE o \in Userdata
      BY <1>2, <2>2, <3>1, <3>7, Distinct DEF RefersTo
    <3>8. CASE o \in UpVals
      BY <1>3, <2>2, <3>1, <3>2, <3>8, Distinct DEF RefersTo
    <3>. QED BY <2>2, <3>3, <3>4, <3>5, <3>6, <3>7, <3>8 DEF RefersTo
  <2>. QED BY <1>2, <1>7, <2>1, <2>2, RefsOf DEF HoldsAlive
<1>11. Callers /\ Chain /\ Quiet
  BY <1>4, <1>6, <1>7 DEF Callers, Chain, Follow, Quiet
<1>12. Sweeping /\ SweepList /\ Marked /\ Finishing
  BY <1>4 DEF Sweeping, SweepList, Marked, Marks, Finishing, atomicStates
<1>. QED BY <1>8, <1>9, <1>10, <1>11, <1>12 DEF HeldInv

LEMMA HeldByCollector ==
  ASSUME HeldInv, IInv, IInv', Collector PROVE HeldInv'
<1>1. CASE closing = "no" /\ MarkRoot
  BY <1>1, HeldMarkRoot
<1>2. CASE closing = "no" /\ \E o \in gray : PropagateMark(o)
  BY <1>2, HeldPropagateMark
<1>3. CASE closing = "no" /\ (Atomic \/ TraverseWeak \/ TraverseAgain)
  BY <1>3, HeldAtomic, HeldTraverseWeak, HeldTraverseAgain
<1>4. CASE closing = "no" /\ (Preserve \/ AtomicEnd)
  BY <1>4, HeldPreserve, HeldAtomicEnd
<1>5. CASE closing = "no" /\ (SweepString \/ SweepStep)
  BY <1>5, HeldSweepString, HeldSweepStep
<1>6. CASE closing = "no" /\ Finalize
  BY <1>6, HeldGCTM DEF Finalize, atomicStates
<1>7. CASE closing = "no" /\ EndCycle
  BY <1>7, HeldEndCycle
<1>. QED BY <1>1, <1>2, <1>3, <1>4, <1>5, <1>6, <1>7 DEF Collector, Collect

LEMMA HeldByScript ==
  ASSUME HeldInv, IInv, IInv', Script PROVE HeldInv'
<1>1. ASSUME NEW l \in Level, Create(l) PROVE HeldInv'
  <2>1. CASE \/ \E t \in Tables : NewTable(t, l)
             \/ \E u \in Userdata : NewUserdata(u, l)
             \/ \E th \in Threads : NewThread(th, l)
             \/ \E s \in Strings : Intern(s, l)
             \/ \E c \in Methods : PushMethod(c, l)
    BY <2>1, HeldNewTable, HeldNewUserdata, HeldNewThread, HeldIntern, HeldPushMethod
  <2>2. CASE \E file \in Files : Load(file.c, file.p, file.inner, file.k, l)
    BY <2>2, HeldLoad, FilesAssumption
  <2>3. CASE \E f \in Closures, c \in Closures \ Methods, u \in UpVals \cup {Nil} : NewClosure(f, c, u, l)
    BY <2>3, HeldNewClosure
  <2>. QED BY <1>1, <2>1, <2>2, <2>3 DEF Create, Operate
<1>2. ASSUME NEW l \in Level, Return(l) \/ \E v \in Loadable : Move(l, v) PROVE HeldInv'
  BY <1>2, HeldReturn, HeldMove
<1>3. CASE Change
  BY <1>3, HeldSetTable, HeldSetMetatable, HeldSetStringMetatable, HeldSetEnv, HeldSetUpVal,
     HeldResume, HeldYield DEF Change, Operate
<1>. QED BY <1>1, <1>2, <1>3 DEF Script, Operate

LEMMA StepHeld == HeldInv /\ IInv /\ IInv' /\ [Next]_vars => HeldInv'
<1>. SUFFICES ASSUME HeldInv, IInv, IInv', [Next]_vars PROVE HeldInv'
  OBVIOUS
<1>1. CASE FullGC \/ LuaClose \/ FreeAll
  BY <1>1, HeldFullGC, HeldLuaClose, HeldFreeAll
<1>2. CASE CallGCTM
  <2>1. closing # "no" /\ closing # "closed" /\ gcstate \notin atomicStates /\ \E u \in tmudata : GCTM(u)
    BY <1>2 DEF CallGCTM, ScriptsRun
  <2>. QED BY <2>1, HeldGCTM
<1>3. CASE UNCHANGED vars
  BY <1>3, NothingChanges DEF vars, udataVars, phaseVars
<1>. QED BY <1>1, <1>2, <1>3, HeldByCollector, HeldByScript DEF Next, Operate

THEOREM Held == Spec => []HeldInv
<1>. QED BY InitHeld, StepHeld, Invariance, PTL DEF Spec

(* No reference of a root or of an object that is alive dangles, for every *)
(* heap scripts can build, every order of the lists and whatever scripts   *)
(* do between the steps of a collection.                                   *)
THEOREM NoDangling == Spec => []HoldsAlive
<1>1. HeldInv => HoldsAlive
  BY DEF HeldInv
<1>. QED BY <1>1, Held, PTL

--------------------------------------------------------------------------------
(* The counters, and so the types of all variables.                        *)
Counts ==
  /\ full \in {"no", "finish", "collect"} /\ doomed \subseteq Obj
  /\ totalbytes \in Int /\ steps \in 0 .. MaxSteps

LEMMA Counted == \A S : S \subseteq Obj => Cardinality(S) \in Int
<1>. SUFFICES ASSUME NEW S, S \subseteq Obj PROVE Cardinality(S) \in Int
  OBVIOUS
<1>1. IsFiniteSet(S)
  BY BoundsAssumption, FS_Subset
<1>. QED BY <1>1, FS_CardinalityType

LEMMA Dooms ==
  ASSUME doomed \subseteq Obj, Doom PROVE doomed' \subseteq Obj
<1>1. Unreachable \subseteq Obj
  BY DEF Unreachable
<1>. QED BY <1>1 DEF Doom

LEMMA Steps ==
  ASSUME Counts PROVE Operation => steps' \in 0 .. MaxSteps
BY BoundsAssumption DEF Counts, Operation

(* ... and a state that is being closed is not opened again.               *)
Tally ==
  /\ full' \in {"no", "finish", "collect"} /\ totalbytes' \in Int /\ steps' \in 0 .. MaxSteps
  /\ closing # "no" => closing' # "no"

LEMMA TallyCreate ==
  ASSUME Counts, NEW l \in Level
  PROVE  /\ \A t \in Tables : NewTable(t, l) => Tally
         /\ \A u \in Userdata : NewUserdata(u, l) => Tally
         /\ \A th \in Threads : NewThread(th, l) => Tally
         /\ \A s \in Strings : Intern(s, l) => Tally
         /\ \A c \in Methods : PushMethod(c, l) => Tally
         /\ \A file \in Files : Load(file.c, file.p, file.inner, file.k, l) => Tally
         /\ \A f \in Closures, c \in Closures, u \in UpVals \cup {Nil} : NewClosure(f, c, u, l) => Tally
<1>1. full \in {"no", "finish", "collect"} /\ totalbytes \in Int
  BY DEF Counts
<1>2. \A o : Allocated(o) \in Int
  BY DEF Allocated
<1>3. \A o : Alloc(o, l) => Tally
  BY <1>1, <1>2, Steps DEF Alloc, New, Tally, phaseVars
<1>4. ASSUME NEW th \in Threads, NewThread(th, l) PROVE Tally
  BY <1>1, <1>2, <1>4, Steps DEF NewThread, New, Tally, phaseVars
<1>5. ASSUME NEW s \in Strings, Intern(s, l) PROVE Tally
  BY <1>1, <1>2, <1>5, Steps DEF Intern, Tally, phaseVars
<1>6. ASSUME NEW file \in Files, Load(file.c, file.p, file.inner, file.k, l) PROVE Tally
  <2>. DEFINE new == {file.c, file.p} \cup ({file.inner} \ {Nil})
  <2>1. new \subseteq Obj
    BY FilesAssumption DEF Obj
  <2>2. Operation /\ UNCHANGED phaseVars /\ totalbytes' = totalbytes + Cardinality(new)
    BY <1>6 DEF Load
  <2>. HIDE DEF new
  <2>. QED BY <1>1, <2>1, <2>2, Counted, Steps DEF Tally, phaseVars
<1>7. ASSUME NEW f \in Closures, NEW c \in Closures, NEW u \in UpVals \cup {Nil}, NewClosure(f, c, u, l)
      PROVE  Tally
  <2>. DEFINE new == {c} \cup (IF u = Nil \/ Exists(u) THEN {} ELSE {u})
  <2>1. new \subseteq Obj
    BY DEF Obj
  <2>2. Operation /\ UNCHANGED phaseVars /\ totalbytes' = totalbytes + Cardinality(new)
    BY <1>7 DEF NewClosure
  <2>. HIDE DEF new
  <2>. QED BY <1>1, <2>1, <2>2, Counted, Steps DEF Tally, phaseVars
<1>. QED BY <1>3, <1>4, <1>5, <1>6, <1>7 DEF NewTable, NewUserdata, PushMethod

LEMMA TallyChange ==
  ASSUME Counts, Change PROVE Tally
<1>1. full \in {"no", "finish", "collect"} /\ totalbytes \in Int
  BY DEF Counts
<1>2. ASSUME Operation, UNCHANGED <<phaseVars, totalbytes>> PROVE Tally
  BY <1>1, <1>2, Steps DEF Tally, phaseVars
<1>3. \A t, n, kk, v : SetTable(t, n, kk, v) => Tally
  BY <1>2 DEF SetTable
<1>4. \A o, m : SetMetatable(o, m) \/ SetEnv(o, m) \/ SetUpVal(o, m) => Tally
  BY <1>2 DEF SetMetatable, SetEnv, SetUpVal
<1>5. \A x : SetStringMetatable(x) \/ Resume(x) \/ Yield(x) => Tally
  BY <1>2 DEF SetStringMetatable, Resume, Yield, Unmarked
<1>. QED BY <1>3, <1>4, <1>5 DEF Change, Operate

LEMMA TallyScript ==
  ASSUME Counts, Script PROVE Tally
<1>1. full \in {"no", "finish", "collect"} /\ totalbytes \in Int
  BY DEF Counts
<1>2. ASSUME NEW l \in Level, Create(l) PROVE Tally
  BY <1>2, TallyCreate DEF Create, Operate
<1>3. ASSUME NEW l \in Level, Return(l) PROVE Tally
  <2>. DEFINE dead == {u \in OpenFrom(running, l) : IsDead(u)}
  <2>1. dead \subseteq Obj
    BY DEF OpenFrom, Obj
  <2>2. Operation /\ UNCHANGED phaseVars /\ totalbytes' = totalbytes - Cardinality(dead)
    BY <1>3 DEF Return, Close
  <2>. HIDE DEF dead
  <2>. QED BY <1>1, <2>1, <2>2, Counted, Steps DEF Tally, phaseVars
<1>4. ASSUME NEW l, NEW v, Move(l, v) PROVE Tally
  BY <1>1, <1>4, Steps DEF Move, Unmarked, Tally, phaseVars
<1>. QED BY <1>2, <1>3, <1>4, TallyChange DEF Script, Operate

LEMMA TallyOthers ==
  ASSUME Counts, FullGC \/ LuaClose \/ CallGCTM \/ FreeAll PROVE Tally
<1>1. full \in {"no", "finish", "collect"} /\ totalbytes \in Int /\ steps \in 0 .. MaxSteps
  BY DEF Counts
<1>2. CASE FullGC
  BY <1>1, <1>2, Steps DEF FullGC, Tally
<1>3. CASE LuaClose
  <2>. DEFINE dead == {u \in OpenFrom(mainthread, 0) : IsDead(u)}
  <2>1. dead \subseteq Obj
    BY DEF OpenFrom, Obj
  <2>2. Operation /\ full' = full /\ totalbytes' = totalbytes - Cardinality(dead) /\ closing' # "no"
    BY <1>3 DEF LuaClose, Close
  <2>. HIDE DEF dead
  <2>. QED BY <1>1, <2>1, <2>2, Counted, Steps DEF Tally
<1>4. CASE CallGCTM
  BY <1>1, <1>4 DEF CallGCTM, GCTM, Tally, phaseVars
<1>5. CASE FreeAll
  <2>. DEFINE all == {o \in Obj \ {mainthread} : Exists(o)}
  <2>1. all \subseteq Obj
    OBVIOUS
  <2>2. full' = full /\ steps' = steps /\ totalbytes' = totalbytes - Cardinality(all) /\ closing' # "no"
    BY <1>5 DEF FreeAll
  <2>. HIDE DEF all
  <2>. QED BY <1>1, <2>1, <2>2, Counted DEF Tally
<1>. QED BY <1>2, <1>3, <1>4, <1>5

LEMMA TallyCollector ==
  ASSUME Counts, HeldInv, Collector PROVE Tally
<1>1. full \in {"no", "finish", "collect"} /\ totalbytes \in Int /\ steps \in 0 .. MaxSteps
  BY DEF Counts
<1>2. CASE MarkRoot \/ EndCycle
  BY <1>1, <1>2 DEF MarkRoot, EndCycle, Tally
<1>3. CASE (\E o \in gray : PropagateMark(o)) \/ Finalize
  BY <1>1, <1>3 DEF PropagateMark, Finalize, GCTM, Tally, phaseVars
<1>4. CASE Atomic \/ TraverseWeak \/ TraverseAgain \/ Preserve \/ AtomicEnd
  BY <1>1, <1>4 DEF Atomic, TraverseWeak, TraverseAgain, Preserve, AtomicEnd, Step, Tally
<1>5. CASE SweepString \/ SweepStep
  <2>1. \A S : {o \in S : IsGarbage(o)} \subseteq S
    OBVIOUS
  <2>2. ASSUME NEW S, S \subseteq Obj, Freeing(S) PROVE totalbytes' \in Int
    BY <1>1, <2>1, <2>2, Counted DEF Freeing
  <2>3. CASE SweepString
    <3>. DEFINE chain == {s \in Strings : Exists(s) /\ hash[s] = sweepstrgc}
    <3>1. chain \subseteq Obj
      BY DEF Obj
    <3>2. Freeing(chain) /\ UNCHANGED <<full, steps, closing>>
      BY <2>3 DEF SweepString
    <3>. QED BY <1>1, <2>2, <3>1, <3>2 DEF Tally
  <2>4. CASE SweepStep
    <3>. DEFINE S == {x \in sweepgc : Cardinality({y \in sweepgc : Rank[y] < Rank[x]}) < GCSWEEPMAX}
                open == {u \in UpVals : IsOpen(u) /\ place[u][1] \in S}
    <3>1. S \cup open \subseteq Obj
      BY DEF HeldInv, Fields, Obj
    <3>2. Freeing(S \cup open) /\ UNCHANGED <<full, steps, closing>>
      BY <2>4 DEF SweepStep, Sweep
    <3>. HIDE DEF S, open
    <3>. QED BY <1>1, <2>2, <3>1, <3>2 DEF Tally
  <2>. QED BY <1>5, <2>3, <2>4
<1>. QED BY <1>2, <1>3, <1>4, <1>5 DEF Collector, Collect

LEMMA InitCounts == Init => Counts
<1>. SUFFICES ASSUME Init PROVE Counts
  OBVIOUS
<1>1. PICK h \in Heaps : totalbytes = Cardinality(h.exists) + Cardinality(h.exists \cap Methods)
  BY DEF Init
<1>2. h.exists \subseteq Obj /\ h.exists \cap Methods \subseteq Obj
  BY HeapsAssumption
<1>. QED BY <1>1, <1>2, Counted, BoundsAssumption DEF Init, Counts

LEMMA StepTally ==
  ASSUME Counts, HeldInv, Next PROVE Tally /\ Doom
<1>1. Doom
  BY DEF Next, Collector, Collect, Script, Create, Change, Operate
<1>2. Tally
  BY TallyCollector, TallyScript, TallyOthers DEF Next, Operate
<1>. QED BY <1>1, <1>2

LEMMA StepCounts == Counts /\ HeldInv /\ [Next]_vars => Counts'
<1>. SUFFICES ASSUME Counts, HeldInv, [Next]_vars PROVE Counts'
  OBVIOUS
<1>1. CASE UNCHANGED vars
  BY <1>1 DEF vars, phaseVars, Counts
<1>2. CASE Next
  BY <1>2, StepTally, Dooms DEF Counts, Tally
<1>. QED BY <1>1, <1>2

(* Every variable keeps its type, and what is freed leaves no open upvalue *)
(* and no stack behind.                                                    *)
THEOREM Typed == Spec => []TypeOK
<1>1. IInv /\ HeldInv /\ Counts => TypeOK
  BY DEF IInv, HeldInv, Counts, Kinds, Calls, Fields, Colouring, TypeOK, Colours, Waiting
<1>. QED BY <1>1, Invariance, Held, InitCounts, StepCounts, PTL DEF Spec

--------------------------------------------------------------------------------
(* What is unreachable when a cycle begins is freed in it.  Induction over *)
(* the sets of objects, by the greatest counterexample: what Closure       *)
(* computes is closed.                                                     *)
More(S) == S \cup ((UNION {Refs(o) : o \in S}) \cap Obj)
Sealed(S) == \A o \in S : Refs(o) \cap Obj \subseteq S

LEMMA Maximal ==
  ASSUME NEW T, T \subseteq SUBSET Obj, T # {}
  PROVE  \E S \in T : \A U \in T : S \subseteq U => U = S
<1>. DEFINE Less == StrictSubsetOrdering(Obj)
            Rest == {Obj \ S : S \in T}
<1>1. IsWellFoundedOn(Less, SUBSET Obj)
  BY BoundsAssumption, FS_FiniteSubsetsOfFinite, FS_StrictSubsetOrderingWellFounded, Zenon
<1>2. Rest \subseteq SUBSET Obj /\ Rest # {}
  <2>1. PICK S \in T : TRUE
    OBVIOUS
  <2>2. Obj \ S \in Rest
    BY <2>1
  <2>3. \A y \in Rest : y \in SUBSET Obj
    OBVIOUS
  <2>. HIDE DEF Rest
  <2>. QED BY <2>2, <2>3
<1>. HIDE DEF Less, Rest
<1>3. \E x \in Rest : \A y \in Rest : <<y, x>> \notin Less
  BY <1>1, <1>2, WFMin
<1>4. PICK x \in Rest : \A y \in Rest : <<y, x>> \notin Less
  BY <1>3
<1>5. PICK S \in T : x = Obj \ S
  BY DEF Rest
<1>6. ASSUME NEW U \in T, S \subseteq U PROVE U = S
  <2>1. <<Obj \ U, x>> \notin Less
    BY <1>4 DEF Rest
  <2>2. Obj \ U \subseteq x
    BY <1>5, <1>6
  <2>3. Obj \ U = x
    BY <2>1, <2>2, <1>5 DEF Less, StrictSubsetOrdering
  <2>. QED BY <1>5, <1>6, <2>3
<1>. QED BY <1>6

LEMMA MoreOf ==
  ASSUME NEW S \in SUBSET Obj
  PROVE  /\ More(S) \in SUBSET Obj /\ S \subseteq More(S)
         /\ More(S) = S => Sealed(S)
         /\ \A U : Sealed(U) /\ S \subseteq U => More(S) \subseteq U
BY DEF More, Sealed

LEMMA ClosureDefined ==
  Closure = [S \in SUBSET Obj |-> IF More(S) = S THEN S ELSE Closure[More(S)]]
<1>. DEFINE Least(S) == {o \in Obj : \A U \in SUBSET Obj : Sealed(U) /\ S \subseteq U => o \in U}
            f == [S \in SUBSET Obj |-> Least(S)]
            Def(g) == g = [S \in SUBSET Obj |-> IF More(S) = S THEN S ELSE g[More(S)]]
<1>1. ASSUME NEW S \in SUBSET Obj PROVE f[S] = IF More(S) = S THEN S ELSE f[More(S)]
  <2>1. CASE More(S) = S
    <3>1. Sealed(S)
      BY <2>1, MoreOf
    <3>. QED BY <2>1, <3>1
  <2>2. CASE More(S) # S
    <3>1. \A U : Sealed(U) => (S \subseteq U <=> More(S) \subseteq U)
      BY MoreOf
    <3>2. Least(S) = Least(More(S))
      BY <3>1
    <3>. QED BY <2>2, <3>2, MoreOf
  <2>. QED BY <2>1, <2>2
<1>2. Def(f)
  <2>. HIDE DEF Least
  <2>1. f = [S \in SUBSET Obj |-> f[S]]
    OBVIOUS
  <2>. HIDE DEF f
  <2>. QED BY <1>1, <2>1
<1>. HIDE DEF f
<1>3. \E g : Def(g)
  BY <1>2
<1>4. Closure = CHOOSE g : Def(g)
  BY DEF Closure, More
<1>. HIDE DEF Def
<1>5. Def(Closure)
  BY <1>3, <1>4
<1>. QED BY <1>5 DEF Def

LEMMA ClosureCloses ==
  \A S \in SUBSET Obj : S \subseteq Closure[S] /\ Closure[S] \subseteq Obj /\ Sealed(Closure[S])
<1>. DEFINE Right(S) == S \subseteq Closure[S] /\ Closure[S] \subseteq Obj /\ Sealed(Closure[S])
            T == {S \in SUBSET Obj : ~Right(S)}
<1>1. \A S \in SUBSET Obj : Closure[S] = IF More(S) = S THEN S ELSE Closure[More(S)]
  BY ClosureDefined
<1>2. CASE T # {}
  <2>1. PICK S \in T : \A U \in T : S \subseteq U => U = S
    <3>. HIDE DEF T
    <3>1. T \subseteq SUBSET Obj
      BY DEF T
    <3>. QED BY <1>2, <3>1, Maximal
  <2>2. S \in SUBSET Obj /\ ~Right(S)
    OBVIOUS
  <2>3. CASE More(S) = S
    BY <1>1, <2>2, <2>3, MoreOf
  <2>4. CASE More(S) # S
    <3>1. More(S) \in SUBSET Obj /\ S \subseteq More(S) /\ Closure[S] = Closure[More(S)]
      BY <1>1, <2>2, <2>4, MoreOf
    <3>2. More(S) \notin T
      BY <2>1, <2>4, <3>1
    <3>. QED BY <2>2, <3>1, <3>2
  <2>. QED BY <2>3, <2>4
<1>. QED BY <1>2

LEMMA LoadedFrom ==
  ASSUME NEW v \in Loadable
  PROVE  \/ v \in OnStack \cup {Nil, env[running]}
         \/ \E t \in (OnStack \cup {env[running]}) \cap Tables, n \in Node :
               Entry(t, n) /\ v \in {val[t][n], key[t][n]}
         \/ \E c \in OnStack \cap Closures : upval[c] # Nil /\ v = UpValue(upval[c])
         \/ \E o \in OnStack \cap (Tables \cup Userdata) : v = meta[o]
<1>. DEFINE Of(t) == UNION {{val[t][n], key[t][n]} : n \in {m \in Node : Entry(t, m)}}
            T == (OnStack \cup {env[running]}) \cap Tables
            Entries == UNION {Of(t) : t \in T}
<1>1. \/ v \in OnStack \cup {Nil, env[running]} \/ v \in Entries
      \/ v \in {UpValue(upval[c]) : c \in {f \in OnStack \cap Closures : upval[f] # Nil}}
      \/ v \in {meta[o] : o \in OnStack \cap (Tables \cup Userdata)}
  BY Zenon DEF Loadable
<1>2. \A t : v \in Of(t) => \E n \in {m \in Node : Entry(t, m)} : v \in {val[t][n], key[t][n]}
  OBVIOUS
<1>. HIDE DEF Of
<1>3. v \in Entries => \E t \in T : v \in Of(t)
  OBVIOUS
<1>. QED BY <1>1, <1>2, <1>3

LEMMA ReachableCloses ==
  /\ \A o \in Roots \cup {running} \cup tmudata : o \in Obj => o \in Reachable
  /\ \A o \in Reachable : o \in Obj /\ \A r \in Refs(o) : r \in Obj => r \in Reachable
<1>. DEFINE S == (Roots \cup {running} \cup tmudata) \cap Obj
<1>1. S \in SUBSET Obj
  OBVIOUS
<1>. HIDE DEF S
<1>2. S \subseteq Closure[S] /\ Sealed(Closure[S]) /\ Closure[S] \subseteq Obj
  BY <1>1, ClosureCloses
<1>3. Reachable = Closure[S]
  BY DEF Reachable, S
<1>. QED BY <1>2, <1>3 DEF Sealed, S

LEMMA ReachableNext ==
  (/\ \A o \in Roots \cup {running} \cup tmudata : o \in Obj => o \in Reachable
   /\ \A o \in Reachable : o \in Obj /\ \A r \in Refs(o) : r \in Obj => r \in Reachable)'
BY ReachableCloses, PTL

(* The doomed objects: out of reach, not referred to by others, and not    *)
(* marked; dead in the sweep that follows.                                 *)
Outside == \A o \in doomed : Exists(o) /\ o \notin Roots \cup {running} \cup tmudata \cup Fixed
Apart == \A o \in Obj \ doomed : Exists(o) => \A r \in Refs(o) : r \notin doomed
Pale ==
  /\ Marks => \A o \in doomed : IsWhite(o)
  /\ gcstate \in {"sweepstring", "sweep"} /\ full # "finish" => \A o \in doomed : IsDead(o)
  /\ gcstate = "finalize" /\ full # "finish" => doomed = {}
Lost == doomed \subseteq Obj /\ (closing = "no" => Outside /\ Apart /\ Pale)

(* The references an operation makes are to N.                             *)
Learns(N) ==
  \A o \in Obj : Exists(o)' => \A r \in Refs(o)' \cap Obj : (Exists(o) /\ r \in Refs(o)) \/ r \in N

(* The ghost, in a step that begins no cycle. *)
Continues == ~(gcstate # "propagate" /\ gcstate' = "propagate")

LEMMA DoomedNext ==
  ASSUME Doom, IInv', Continues
  PROVE  \A o \in doomed' :
           /\ o \in Obj /\ Exists(o)' /\ o \notin Reachable'
           /\ o \notin (Roots \cup {running} \cup tmudata)' \cup Fixed
<1>1. ASSUME NEW o \in Unreachable'
      PROVE  /\ o \in Obj /\ Exists(o)' /\ o \notin Reachable'
             /\ o \notin (Roots \cup {running} \cup tmudata)' \cup Fixed
  BY <1>1, ReachableNext DEF Unreachable
<1>. QED BY <1>1 DEF Doom, Continues

LEMMA Remains ==
  ASSUME Lost, closing = "no", Doom, IInv', Continues, NEW N, Learns(N), \A r \in N \cap Obj : r \notin doomed'
  PROVE  /\ doomed' \subseteq doomed /\ doomed' \subseteq Obj /\ Outside' /\ Apart'
<1>1. doomed' \subseteq doomed /\ (doomed = {} => doomed' = {})
  BY DEF Doom, Continues
<1>2. \A o \in doomed' : /\ o \in Obj /\ Exists(o)' /\ o \notin Reachable'
                         /\ o \notin (Roots \cup {running} \cup tmudata)' \cup Fixed
  BY <1>1, DoomedNext
<1>3. doomed' \subseteq Obj /\ Outside'
  BY <1>2 DEF Outside
<1>4. ASSUME NEW o \in Obj \ doomed', Exists(o)', NEW r \in Refs(o)' PROVE r \notin doomed'
  <2>1. CASE o \in Reachable'
    BY <1>2, <2>1, ReachableNext
  <2>2. CASE o \notin doomed
    <3>1. r \in Obj => (Exists(o) /\ r \in Refs(o)) \/ r \in N
      BY <1>4 DEF Learns
    <3>. QED BY <1>1, <1>2, <2>2, <3>1 DEF Lost, Apart
  <2>3. CASE o \in doomed /\ o \notin Reachable'
    <3>1. o \notin Fixed
      BY <2>3 DEF Lost, Outside
    <3>2. o \in Unreachable'
      BY <1>4, <2>3, <3>1 DEF Unreachable
    <3>. QED BY <1>4, <2>3, <3>2 DEF Doom, Continues
  <2>. QED BY <2>1, <2>2, <2>3
<1>. QED BY <1>1, <1>3, <1>4 DEF Apart

(* In a phase that goes on, doomed objects keep their colour.              *)
LEMMA SamePhase ==
  ASSUME Lost, closing = "no", Doom, IInv', NEW N, Learns(N), \A r \in N \cap Obj : r \notin doomed',
         UNCHANGED <<gcstate, currentwhite, full, closing>>,
         \A o \in doomed' : marked'[o] = marked[o]
  PROVE  Lost'
<1>1. /\ doomed' \subseteq doomed /\ doomed' \subseteq Obj /\ Outside' /\ Apart'
  BY Remains DEF Continues
<1>2. Marks' <=> Marks
  BY DEF Marks
<1>3. \A o \in doomed' : (IsWhite(o)' <=> IsWhite(o)) /\ (IsDead(o)' <=> IsDead(o))
  BY DEF IsWhite, IsDead, otherwhite
<1>4. Pale'
  BY <1>1, <1>2, <1>3 DEF Lost, Pale
<1>. QED BY <1>1, <1>4 DEF Lost

(* What a script can load is not doomed.                                   *)
LEMMA Spared ==
  ASSUME Lost, HeldInv, IInv, closing = "no"
  PROVE  /\ \A o \in Obj : Alive(o) /\ o \notin doomed =>
              \A r \in Obj : RefersTo(o, r) => Alive(r) /\ r \notin doomed
         /\ running \in Obj /\ Alive(running) /\ running \notin doomed
<1>1. \A o \in Obj : Alive(o) => Exists(o) /\ \A r \in Obj : RefersTo(o, r) => Alive(r)
  BY RefsOf DEF HeldInv, HoldsAlive, Alive
<1>2. \A o \in Obj : Exists(o) /\ o \notin doomed => \A r \in Obj : RefersTo(o, r) => r \notin doomed
  BY RefsOf DEF Lost, Apart
<1>3. running \in Obj /\ Alive(running) /\ running \notin doomed
  BY OnStackAlive DEF Obj, Lost, Outside
<1>. QED BY <1>1, <1>2, <1>3

LEMMA LoadableSpared ==
  ASSUME Lost, HeldInv, IInv, closing = "no"
  PROVE  /\ \A v \in Loadable : v \in Obj => Alive(v) /\ v \notin doomed
         /\ \A v \in OnStack : v \in Obj => Alive(v) /\ v \notin doomed
<1>. DEFINE Good(v) == v \in Obj => Alive(v) /\ v \notin doomed
<1>1. Kinds /\ Fields
  BY DEF IInv, HeldInv
<1>2. \A o \in Obj, r \in Obj : Alive(o) /\ o \notin doomed /\ RefersTo(o, r) => Alive(r) /\ r \notin doomed
  BY Spared
<1>3. \A o \in OnStack \cup {env[running]} : Good(o)
  <2>1. running \in Threads /\ running \in Obj /\ Alive(running) /\ running \notin doomed
    BY Spared, <1>1 DEF Kinds
  <2>2. \A l \in Level : Good(stack[running][l])
    BY <1>2, <2>1 DEF RefersTo
  <2>3. Good(env[running])
    BY <1>2, <2>1 DEF RefersTo
  <2>. HIDE DEF Good
  <2>. QED BY <2>2, <2>3 DEF OnStack
<1>4. ASSUME NEW t \in (OnStack \cup {env[running]}) \cap Tables, NEW n \in Node, Entry(t, n)
      PROVE  Good(val[t][n]) /\ Good(key[t][n])
  <2>1. t \in Obj /\ Alive(t) /\ t \notin doomed
    BY <1>3 DEF Obj
  <2>. QED BY <1>2, <1>4, <2>1 DEF RefersTo
<1>5. ASSUME NEW c \in OnStack \cap Closures, upval[c] # Nil
      PROVE  Good(UpValue(upval[c]))
  <2>1. c \in Obj /\ Alive(c) /\ c \notin doomed /\ upval[c] \in UpVals
    BY <1>1, <1>3, <1>5 DEF Obj, Fields
  <2>2. upval[c] \in Obj /\ Alive(upval[c]) /\ upval[c] \notin doomed
    BY <1>2, <2>1 DEF RefersTo, Obj
  <2>. QED BY <1>2, <2>1, <2>2 DEF RefersTo
<1>6. ASSUME NEW o \in OnStack \cap (Tables \cup Userdata)
      PROVE  Good(meta[o])
  <2>1. o \in Obj /\ Alive(o) /\ o \notin doomed
    BY <1>3 DEF Obj
  <2>. QED BY <1>2, <2>1 DEF RefersTo
<1>7. Nil \notin Obj
  BY Distinct
<1>. HIDE DEF Good
<1>. SUFFICES ASSUME NEW v \in Loadable PROVE Good(v)
  BY <1>3 DEF Good
<1>8. CASE v \in OnStack \cup {Nil, env[running]}
  BY <1>3, <1>7, <1>8 DEF Good
<1>9. CASE \E t \in (OnStack \cup {env[running]}) \cap Tables, n \in Node :
             Entry(t, n) /\ v \in {val[t][n], key[t][n]}
  BY <1>4, <1>9
<1>10. CASE \E c \in OnStack \cap Closures : upval[c] # Nil /\ v = UpValue(upval[c])
  BY <1>5, <1>10
<1>11. CASE \E o \in OnStack \cap (Tables \cup Userdata) : v = meta[o]
  BY <1>6, <1>11
<1>12. \/ v \in OnStack \cup {Nil, env[running]}
       \/ \E t \in (OnStack \cup {env[running]}) \cap Tables, n \in Node :
             Entry(t, n) /\ v \in {val[t][n], key[t][n]}
       \/ \E c \in OnStack \cap Closures : upval[c] # Nil /\ v = UpValue(upval[c])
       \/ \E o \in OnStack \cap (Tables \cup Userdata) : v = meta[o]
  BY LoadedFrom
<1>. QED BY <1>8, <1>9, <1>10, <1>11, <1>12

LEMMA Pushed ==
  ASSUME IInv', Continues, closing = "no", Lost, Doom, NEW r \in Obj,
         r \in (Roots \cup {running})' \/ RefersTo(running, r)'
  PROVE  r \notin doomed' /\ r \in Reachable'
<1>1. running' \in Threads /\ running' \in Obj
  BY DEF IInv, Kinds, Obj
<1>2. running' \in Reachable'
  BY <1>1, ReachableNext
<1>3. r \in Reachable'
  BY <1>1, <1>2, ReachableNext, RefsNext
<1>. QED BY <1>3, DoomedNext

LEMMA Unborn ==
  ASSUME Lost, closing = "no", Doom, Continues
  PROVE  doomed' \subseteq doomed /\ \A o : ~Exists(o) => o \notin doomed'
BY DEF Doom, Continues, Lost, Outside

(* What creates objects, or changes stacks only.                           *)
LEMMA LostCreates ==
  ASSUME Lost, HeldInv, IInv, IInv', closing = "no", Doom, UNCHANGED full,
         NEW S, NEW B, NEW C, NEW N, Creation(S, B, C), Discovery(B, C, N),
         \A r \in (B \cup N) \cap Obj : r \notin doomed'
  PROVE  Lost'
<1>1. /\ UNCHANGED <<gcstate, currentwhite, closing>>
      /\ \A o \in Obj \ B : marked'[o] = marked[o]
      /\ B \subseteq Obj
  BY DEF Creation, phaseVars
<1>4. ASSUME NEW o \in Obj, Exists(o)', NEW r \in Refs(o)' \cap Obj PROVE (Exists(o) /\ r \in Refs(o)) \/ r \in N
  <2>1. CASE o \in B
    BY <1>4, <2>1 DEF Discovery
  <2>2. CASE o \notin B
    <3>1. Exists(o)
      BY <1>1, <1>4, <2>2 DEF Exists
    <3>. QED BY <1>4, <3>1 DEF Discovery, Gain
  <2>. QED BY <2>1, <2>2
<1>5. Learns(N)
  BY <1>4 DEF Learns
<1>6. doomed' \subseteq doomed /\ doomed \subseteq Obj /\ \A o \in B : o \notin doomed'
  BY <1>1, Unborn DEF Continues, Lost
<1>. QED BY <1>1, <1>5, <1>6, SamePhase

LEMMA LostCreate ==
  ASSUME Lost, HeldInv, IInv, IInv', HeldInv', closing = "no", Doom, NEW l \in Level
  PROVE  /\ \A t \in Tables : NewTable(t, l) => Lost'
         /\ \A u \in Userdata : NewUserdata(u, l) => Lost'
         /\ \A c \in Methods : PushMethod(c, l) => Lost'
         /\ \A th \in Threads : NewThread(th, l) => Lost'
<1>1. env[running] \in Obj => env[running] \notin doomed
  <2>1. running \in Threads
    BY DEF IInv, Kinds
  <2>. QED BY <2>1, Spared DEF RefersTo
<1>2. Nil \notin Obj
  BY Distinct
<1>3. ASSUME NEW t \in Tables, NewTable(t, l) PROVE Lost'
  <2>1. ~Exists(t) /\ UNCHANGED <<full, gcstate>>
    BY <1>3 DEF NewTable, Alloc, New, phaseVars
  <2>2. doomed' \subseteq doomed /\ t \notin doomed'
    BY <2>1, Unborn DEF Continues
  <2>3. Creation({t}, {t}, Stacks \cup {t}) /\ Discovery({t}, Stacks \cup {t}, {t, Nil})
    BY <1>3, HeldNewTable
  <2>. QED BY <1>2, <2>1, <2>2, <2>3, LostCreates
<1>4. ASSUME NEW u \in Userdata, NewUserdata(u, l) PROVE Lost'
  <2>1. ~Exists(u) /\ UNCHANGED <<full, gcstate>>
    BY <1>4 DEF NewUserdata, Alloc, New, phaseVars
  <2>2. doomed' \subseteq doomed /\ u \notin doomed'
    BY <2>1, Unborn DEF Continues
  <2>3. Creation({u}, {u}, Stacks \cup {u}) /\ Discovery({u}, Stacks \cup {u}, {u, Nil, env[running]})
    BY <1>4, HeldNewUserdata
  <2>. QED BY <1>1, <1>2, <2>1, <2>2, <2>3, LostCreates
<1>5. ASSUME NEW c \in Methods, PushMethod(c, l) PROVE Lost'
  <2>1. ~Exists(c) /\ UNCHANGED <<full, gcstate>>
    BY <1>5 DEF PushMethod, Alloc, New, phaseVars
  <2>2. doomed' \subseteq doomed /\ c \notin doomed'
    BY <2>1, Unborn DEF Continues
  <2>3. Creation({c}, {c}, Stacks \cup {c}) /\ Discovery({c}, Stacks \cup {c}, {c, Nil, env[running]})
    BY <1>5, HeldPushMethod
  <2>. QED BY <1>1, <1>2, <2>1, <2>2, <2>3, LostCreates
<1>6. ASSUME NEW th \in Threads, NewThread(th, l) PROVE Lost'
  <2>1. ~Exists(th) /\ UNCHANGED <<full, gcstate>>
    BY <1>6 DEF NewThread, New, phaseVars
  <2>2. doomed' \subseteq doomed /\ th \notin doomed'
    BY <2>1, Unborn DEF Continues
  <2>3. Creation({th}, {th}, Stacks) /\ Discovery({th}, Stacks, {th, Nil, env[running]})
    BY <1>6, HeldNewThread
  <2>. QED BY <1>1, <1>2, <2>1, <2>2, <2>3, LostCreates
<1>. QED BY <1>3, <1>4, <1>5, <1>6

LEMMA LostLoad ==
  ASSUME Lost, HeldInv, IInv, IInv', HeldInv', closing = "no", Doom,
         NEW c \in Closures, NEW p \in Protos, NEW q \in Protos \cup {Nil},
         NEW s \in Strings \cup {Nil}, NEW l \in Level, Load(c, p, q, s, l)
  PROVE  Lost'
<1>. DEFINE new == {c, p} \cup ({q} \ {Nil})
<1>1. /\ ~Exists(c) /\ ~Exists(p) /\ (q # Nil => ~Exists(q)) /\ s \in Loadable
      /\ UNCHANGED <<full, gcstate>>
  BY DEF Load, phaseVars
<1>2. /\ doomed' \subseteq doomed /\ c \notin doomed' /\ p \notin doomed' /\ (q # Nil => q \notin doomed')
  BY <1>1, Unborn DEF Continues
<1>3. env[running] \in Obj => env[running] \notin doomed
  <2>1. running \in Threads
    BY DEF IInv, Kinds
  <2>. QED BY <2>1, Spared DEF RefersTo
<1>4. s \in Obj => s \notin doomed
  BY <1>1, LoadableSpared
<1>5. Creation(new, new, Stacks \cup new) /\ Discovery(new, Stacks \cup new, new \cup {Nil, s, env[running]})
  BY HeldLoad
<1>6. \A r \in (new \cup new \cup {Nil, s, env[running]}) \cap Obj : r \notin doomed'
  BY <1>2, <1>3, <1>4, Distinct
<1>. HIDE DEF new
<1>. QED BY <1>1, <1>5, <1>6, LostCreates

LEMMA LostIntern ==
  ASSUME Lost, HeldInv, IInv, IInv', HeldInv', closing = "no", Doom,
         NEW s \in Strings, NEW l \in Level, Intern(s, l)
  PROVE  Lost'
<1>1. Push(l, s) /\ UNCHANGED <<full, gcstate, running>> /\ s \in Obj
  BY DEF Intern, phaseVars, Obj
<1>2. running \in Threads /\ stack'[running][l] = s
  BY <1>1 DEF Push, IInv, HeldInv, Kinds, Fields
<1>3. RefersTo(running, s)'
  BY <1>1, <1>2 DEF RefersTo
<1>4. s \notin doomed'
  BY <1>1, <1>3, Pushed DEF Continues
<1>5. Creation({}, {s}, Stacks) /\ Discovery({s}, Stacks, {s})
  BY HeldIntern
<1>. QED BY <1>1, <1>4, <1>5, LostCreates

LEMMA LostNewClosure ==
  ASSUME Lost, HeldInv, IInv, IInv', HeldInv', closing = "no", Doom,
         NEW f \in Closures, NEW c \in Closures, NEW u \in UpVals \cup {Nil}, NEW l \in Level, NewClosure(f, c, u, l)
  PROVE  Lost'
<1>1. Push(l, c) /\ UNCHANGED <<full, gcstate, running>> /\ c \in Obj /\ upval' = [upval EXCEPT ![c] = u]
  BY DEF NewClosure, phaseVars, Obj
<1>2. running \in Threads /\ stack'[running][l] = c /\ upval'[c] = u
  BY <1>1 DEF Push, IInv, HeldInv, Kinds, Fields
<1>3. RefersTo(running, c)'
  BY <1>1, <1>2 DEF RefersTo
<1>4. c \in Reachable' /\ Continues
  BY <1>1, <1>3, Pushed DEF Continues
<1>5. \A o \in Reachable' : o \notin doomed' /\ \A r \in Obj : RefersTo(o, r)' => r \in Reachable'
  BY <1>4, DoomedNext, ReachableNext, RefsNext
<1>6. \A r \in {proto'[c], env'[c], u} \cap Obj : r \in Reachable'
  BY <1>2, <1>4, <1>5 DEF RefersTo
<1>7. u # Nil => u \in UpVals /\ u \in Reachable'
  BY <1>6 DEF Obj
<1>8. u # Nil /\ UpValue(u)' \in Obj => UpValue(u)' \in Reachable'
  BY <1>5, <1>7 DEF RefersTo
<1>9. PICK B, C, N : /\ Creation({c}, B, C) /\ Discovery(B, C, N) /\ B \subseteq {c, u}
                     /\ FoundBy(c, u, N)
  BY HeldNewClosure
<1>10. \A r \in (B \cup N) \cap Obj : r \notin doomed'
  BY <1>4, <1>5, <1>6, <1>7, <1>8, <1>9, Distinct DEF FoundBy
<1>. QED BY <1>1, <1>9, <1>10, LostCreates

LEMMA LostChange ==
  ASSUME Lost, HeldInv, IInv, IInv', HeldInv', closing = "no", Doom
  PROVE  /\ \A l \in Level, v \in Loadable : Move(l, v) => Lost'
         /\ \A m \in Tables \cup {Nil} : SetStringMetatable(m) => Lost'
         /\ \A th \in Threads : Resume(th) \/ Yield(th) => Lost'
<1>1. \A v \in Loadable : v \in Obj => v \notin doomed
  BY LoadableSpared
<1>2. ASSUME Continues PROVE doomed' \subseteq doomed
  BY <1>2, Unborn
<1>3. Nil \notin Obj
  BY Distinct
<1>4. ASSUME NEW l \in Level, NEW v \in Loadable, Move(l, v) PROVE Lost'
  <2>1. UNCHANGED <<full, gcstate>>
    BY <1>4 DEF Move, Unmarked, phaseVars
  <2>2. Creation({}, {}, Stacks) /\ Discovery({}, Stacks, {v})
    BY <1>4, HeldMove
  <2>. QED BY <1>1, <1>2, <2>1, <2>2, LostCreates DEF Continues
<1>5. ASSUME NEW m \in Tables \cup {Nil}, SetStringMetatable(m) PROVE Lost'
  <2>1. UNCHANGED <<full, gcstate>> /\ m \in Loadable
    BY <1>5 DEF SetStringMetatable, Unmarked, phaseVars
  <2>2. Creation({}, {}, {}) /\ Discovery({}, {}, {m})
    BY <1>5, HeldSetStringMetatable
  <2>. QED BY <1>1, <1>2, <2>1, <2>2, LostCreates DEF Continues
<1>6. ASSUME NEW th \in Threads, Resume(th) PROVE Lost'
  <2>1. UNCHANGED <<full, gcstate>> /\ th \in Loadable
    BY <1>6 DEF Resume, Unmarked, phaseVars
  <2>2. Creation({}, {}, Stacks) /\ Discovery({}, Stacks, {th})
    BY <1>6, HeldResume
  <2>. QED BY <1>1, <1>2, <2>1, <2>2, LostCreates DEF Continues
<1>7. ASSUME NEW th \in Threads, Yield(th) PROVE Lost'
  <2>1. UNCHANGED <<full, gcstate>> /\ callee[th] = running
    BY <1>7 DEF Yield, Unmarked, phaseVars
  <2>2. Creation({}, {}, Stacks) /\ Discovery({}, Stacks, {th, Nil})
    BY <1>7, HeldYield
  <2>3. th \notin doomed
    <3>. DEFINE S == {x \in Threads : Alive(x) /\ x \notin doomed}
    <3>1. mainthread \in S
      BY KindsAssumption, Distinct DEF HeldInv, HoldsAlive, Lost, Outside, Roots, Obj
    <3>2. ASSUME NEW x \in S, callee[x] # Nil PROVE callee[x] \in S
      <4>1. callee[x] \in Threads /\ callee[x] \in Obj /\ x \in Obj
        BY <3>2 DEF HeldInv, Fields, Obj
      <4>. QED BY <3>2, <4>1, Spared DEF RefersTo
    <3>3. Follow(S)
      BY <3>1, <3>2 DEF Follow
    <3>4. callee[th] # Nil
      BY <2>1, Distinct DEF IInv, Kinds, Obj
    <3>. QED BY <3>3, <3>4 DEF HeldInv, Chain
  <2>. QED BY <1>2, <1>3, <2>1, <2>2, <2>3, LostCreates DEF Continues
<1>. QED BY <1>4, <1>5, <1>6, <1>7

--------------------------------------------------------------------------------
(* What a script stores, and what the barriers mark, is not doomed.        *)
LEMMA MarkingSpares ==
  ASSUME Lost, HeldInv, IInv, closing = "no", NEW S, \A x \in S \cap Obj : Alive(x) /\ x \notin doomed
  PROVE  \A x \in NewlyMarked(S) : x \in Obj /\ IsWhite(x) /\ x \notin doomed
<1>1. Kinds /\ Fields
  BY DEF HeldInv, IInv
<1>2. \A x, r \in Obj : Alive(x) /\ x \notin doomed /\ r \in Refs(x) => Alive(r) /\ r \notin doomed
  BY Spared, RefsOf
<1>3. UpVals \cup Userdata \subseteq Obj
  BY DEF Obj
<1>. QED BY <1>1, <1>2, <1>3, MarkedClosed

LEMMA LostStores ==
  ASSUME Lost, IInv', closing = "no", Doom, UNCHANGED phaseVars, NEW C, NEW N, Gain(C, N),
         \A r \in N \cap Obj : r \notin doomed,
         \A o \in doomed' : marked'[o] = marked[o], \A o \in Obj : Exists(o)' => Exists(o)
  PROVE  Lost'
<1>1. UNCHANGED <<gcstate, currentwhite, full, closing>>
  BY DEF phaseVars
<1>2. doomed' \subseteq doomed
  BY <1>1, Unborn DEF Continues
<1>3. Learns(N)
  BY DEF Learns, Gain
<1>. QED BY <1>1, <1>2, <1>3, SamePhase

LEMMA BackSpares ==
  ASSUME Lost, Kinds, NEW t \in Obj, t \notin doomed, NEW S, BarrierBack(t, S)
  PROVE  /\ \A x \in doomed : marked'[x] = marked[x]
         /\ \A x \in Obj : Exists(x)' => Exists(x)
BY DEF Lost, Kinds, BarrierBack, Exists, IsBlack

LEMMA ForwardSpares ==
  ASSUME Lost, HeldInv, IInv, closing = "no", NEW o \in Obj, o \notin doomed,
         NEW v, v \in Obj => Alive(v) /\ v \notin doomed, BarrierForward(marked, o, v)
  PROVE  /\ \A x \in doomed : marked'[x] = marked[x]
         /\ \A x \in Obj : Exists(x)' => Exists(x)
<1>. DEFINE M == NewlyMarked({v})
<1>1. \A x \in M : x \in Obj /\ IsWhite(x) /\ x \notin doomed
  BY MarkingSpares
<1>2. doomed \subseteq Obj /\ Whites \cap {"free"} = {}
  BY WhitesAssumption DEF Lost
<1>3. CASE marked' = marked
  BY <1>3 DEF Exists
<1>4. CASE marked' = Marking(marked, M)
  BY <1>1, <1>2, <1>4 DEF Marking, Exists, IsWhite
<1>5. CASE marked' = Whitened(marked, {o}) /\ marked[o] = "black"
  BY <1>2, <1>5 DEF Whitened, Exists
<1>. QED BY <1>3, <1>4, <1>5 DEF BarrierForward

LEMMA LostSet ==
  ASSUME Lost, HeldInv, IInv, IInv', closing = "no", Doom
  PROVE  /\ \A t \in Tables, n \in Node, kk \in OnStack \cup {Number}, v \in Loadable :
              SetTable(t, n, kk, v) => Lost'
         /\ \A o \in Tables \cup Userdata, m \in Tables \cup {Nil} : SetMetatable(o, m) => Lost'
         /\ \A o \in Closures \cup Userdata \cup Threads, t \in Tables : SetEnv(o, t) => Lost'
         /\ \A c \in Closures, v \in Loadable : SetUpVal(c, v) => Lost'
<1>1. /\ \A v \in Loadable : v \in Obj => Alive(v) /\ v \notin doomed
      /\ \A v \in OnStack : v \in Obj => Alive(v) /\ v \notin doomed
  BY LoadableSpared
<1>2. Kinds /\ Fields /\ Number \notin Obj /\ Nil \notin Obj
  BY Distinct DEF HeldInv, IInv
<1>3. doomed' \subseteq doomed \/ gcstate' # gcstate
  BY Unborn DEF Continues
<1>4. ASSUME NEW t \in Tables, NEW n \in Node, NEW kk \in OnStack \cup {Number}, NEW v \in Loadable,
             SetTable(t, n, kk, v)
      PROVE  Lost'
  <2>1. t \in Loadable /\ UNCHANGED phaseVars /\ t \in Obj /\ \E S : BarrierBack(t, S)
    BY <1>4 DEF SetTable, Obj
  <2>2. /\ \A x \in doomed : marked'[x] = marked[x]
        /\ \A x \in Obj : Exists(x)' => Exists(x)
    BY <1>1, <1>2, <2>1, BackSpares
  <2>3. Gain({t}, {kk, v})
    BY <1>4, HeldSetTable
  <2>. QED BY <1>1, <1>2, <1>3, <2>1, <2>2, <2>3, LostStores DEF phaseVars
<1>5. ASSUME NEW o \in Tables \cup Userdata, NEW m \in Tables \cup {Nil}, SetMetatable(o, m) PROVE Lost'
  <2>1. /\ o \in Loadable /\ m \in Loadable /\ UNCHANGED phaseVars /\ o \in Obj
        /\ BarrierBack(o, {m}) \/ BarrierForward(marked, o, m)
    BY <1>5 DEF SetMetatable, Obj
  <2>2. /\ \A x \in doomed : marked'[x] = marked[x]
        /\ \A x \in Obj : Exists(x)' => Exists(x)
    BY <1>1, <1>2, <2>1, BackSpares, ForwardSpares
  <2>3. Gain({o}, {m})
    BY <1>5, HeldSetMetatable
  <2>. QED BY <1>1, <1>3, <2>1, <2>2, <2>3, LostStores DEF phaseVars
<1>6. ASSUME NEW o \in Closures \cup Userdata \cup Threads, NEW t \in Tables, SetEnv(o, t) PROVE Lost'
  <2>1. /\ o \in Loadable /\ t \in Loadable /\ UNCHANGED phaseVars /\ o \in Obj
        /\ BarrierForward(marked, o, t)
    BY <1>6 DEF SetEnv, Obj
  <2>2. /\ \A x \in doomed : marked'[x] = marked[x]
        /\ \A x \in Obj : Exists(x)' => Exists(x)
    BY <1>1, <2>1, ForwardSpares
  <2>3. Gain({o}, {t})
    BY <1>6, HeldSetEnv
  <2>. QED BY <1>1, <1>3, <2>1, <2>2, <2>3, LostStores DEF phaseVars
<1>7. ASSUME NEW c \in Closures, NEW v \in Loadable, SetUpVal(c, v) PROVE Lost'
  <2>1. /\ c \in Loadable /\ UNCHANGED phaseVars /\ c \in Obj /\ upval[c] # Nil
        /\ BarrierForward(marked, upval[c], v)
    BY <1>7 DEF SetUpVal, Obj
  <2>2. upval[c] \in Obj /\ upval[c] \notin doomed
    BY <1>1, <1>2, <2>1, Spared DEF Fields, Obj, RefersTo
  <2>3. /\ \A x \in doomed : marked'[x] = marked[x]
        /\ \A x \in Obj : Exists(x)' => Exists(x)
    BY <1>1, <2>1, <2>2, ForwardSpares
  <2>4. Gain(Stacks \cup {upval[c]}, {v})
    BY <1>7, HeldSetUpVal
  <2>. QED BY <1>1, <1>3, <2>1, <2>3, <2>4, LostStores DEF phaseVars
<1>. QED BY <1>4, <1>5, <1>6, <1>7

LEMMA LostReturn ==
  ASSUME Lost, HeldInv, IInv, IInv', closing = "no", Doom, NEW l \in Level, Return(l)
  PROVE  Lost'
<1>. DEFINE S == OpenFrom(running, l)
            dead == {u \in S : IsDead(u)}
            grays == {u \in S : marked[u] = "gray"}
            V == {UpValue(u) : u \in grays}
            M == IF gcstate = "propagate" THEN NewlyMarked(V) ELSE {}
<1>1. /\ gcstate \notin atomicStates /\ full # "finish" /\ UNCHANGED phaseVars
      /\ \A o \in Obj : marked'[o] = IF o \in dead THEN "free"
                                     ELSE IF o \in M THEN ColourOf(o)
                                     ELSE IF o \notin grays THEN marked[o]
                                     ELSE IF gcstate = "propagate" THEN "black"
                                     ELSE currentwhite
  BY DEF Return, Close, Operation, ScriptsRun
<1>2. /\ Kinds /\ Fields /\ Whites = {currentwhite, otherwhite}
      /\ {currentwhite, otherwhite} \cap {"gray", "black", "free"} = {}
  BY TwoWhites DEF HeldInv, IInv, Kinds
<1>3. \A u \in grays : u \in UpVals /\ u \in Obj /\ marked[u] = "gray"
  BY DEF OpenFrom, Obj
<1>4. ASSUME NEW u \in grays PROVE u \notin doomed
  <2>1. CASE gcstate = "propagate"
    BY <1>2, <1>3, <2>1 DEF Lost, Pale, Marks, IsWhite
  <2>2. CASE gcstate \in {"sweepstring", "sweep"}
    BY <1>1, <1>2, <1>3, <2>2 DEF Lost, Pale, IsDead
  <2>3. CASE gcstate \in {"pause", "finalize"}
    <3>1. u \notin tmudata
      BY <1>3, Distinct DEF IInv, Calls
    <3>. QED BY <1>2, <1>3, <2>3, <3>1 DEF HeldInv, Quiet, Exists
  <2>. QED BY <1>1, <1>2, <2>1, <2>2, <2>3 DEF Fields
<1>5. \A x \in M : x \in Obj /\ IsWhite(x) /\ x \notin doomed
  <2>1. ASSUME NEW u \in grays, UpValue(u) \in Obj PROVE Alive(UpValue(u)) /\ UpValue(u) \notin doomed
    <3>1. Alive(u)
      BY <1>2, <1>3, LiveOnes
    <3>. QED BY <1>3, <1>4, <2>1, <3>1, Spared DEF RefersTo
  <2>2. \A x \in V \cap Obj : Alive(x) /\ x \notin doomed
    BY <2>1
  <2>. HIDE DEF V
  <2>. QED BY <2>2, MarkingSpares
<1>. HIDE DEF M
<1>6. doomed' \subseteq doomed /\ \A o \in doomed' : o \in Obj /\ Exists(o)'
  BY <1>1, Unborn, DoomedNext DEF Continues, phaseVars
<1>7. \A o \in doomed' : marked'[o] = marked[o]
  BY <1>1, <1>4, <1>5, <1>6 DEF Exists
<1>8. \A o \in Obj : Exists(o)' => Exists(o)
  BY <1>1, <1>2, <1>3, <1>5 DEF Exists, IsWhite
<1>9. Gain(Stacks, {Nil})
  BY HeldReturn
<1>. QED BY <1>1, <1>7, <1>8, <1>9, Distinct, LostStores

--------------------------------------------------------------------------------
(* The collector: it marks nothing that is doomed, and what it sweeps is.  *)
LEMMA LostMarks ==
  ASSUME Lost, IInv', closing = "no", Doom, Continues, Marks, Marks', UNCHANGED currentwhite,
         Gain({}, {}), \A o \in Obj : Exists(o)' => Exists(o), \A o \in doomed' : marked'[o] = marked[o]
  PROVE  Lost'
<1>1. Learns({})
  BY DEF Learns, Gain
<1>2. doomed' \subseteq doomed /\ doomed' \subseteq Obj /\ Outside' /\ Apart'
  BY <1>1, Remains
<1>3. \A o \in doomed' : IsWhite(o)'
  BY <1>2 DEF Lost, Pale, IsWhite
<1>4. Pale'
  BY <1>3 DEF Pale, Marks, atomicStates
<1>. QED BY <1>2, <1>4 DEF Lost

LEMMA LostMarking ==
  ASSUME Lost, HeldInv, IInv, IInv', closing = "no", Doom, Continues, Marks, Marks',
         UNCHANGED <<heapVars, currentwhite>>, NEW S, \A x \in S \cap Obj : Alive(x) /\ x \notin doomed,
         marked' = Marking(marked, NewlyMarked(S))
  PROVE  Lost'
<1>. DEFINE M == NewlyMarked(S)
<1>1. \A x \in M : x \in Obj /\ IsWhite(x) /\ x \notin doomed
  BY MarkingSpares
<1>2. \A o \in Obj : o \notin M => marked'[o] = marked[o]
  BY DEF Marking
<1>. HIDE DEF M
<1>3. doomed' \subseteq doomed /\ doomed \subseteq Obj
  BY Unborn DEF Lost
<1>4. /\ \A o \in doomed' : marked'[o] = marked[o]
      /\ \A o \in Obj : Exists(o)' => Exists(o)
  BY <1>1, <1>2, <1>3, WhitesAssumption DEF Exists, IsWhite
<1>. QED BY <1>4, NothingGained, LostMarks

LEMMA LostMarkRoot ==
  ASSUME Lost, HeldInv, IInv, IInv', closing = "no", Doom, MarkRoot
  PROVE  Lost'
<1>1. /\ gcstate \in {"pause", "finalize"} /\ gcstate' = "propagate" /\ doomed' = Unreachable
      /\ marked' = Marking(marked, NewlyMarked(Roots))
      /\ UNCHANGED <<heapVars, tmudata, currentwhite, closing>>
  BY DEF MarkRoot, Doom, Roots, udataVars
<1>2. /\ Kinds /\ Fields /\ Quiet /\ Whites \cap {"free"} = {} /\ currentwhite \in Whites
  BY WhitesAssumption DEF HeldInv, IInv, Kinds
<1>3. /\ \A o \in Roots \cup {running} \cup tmudata : o \in Obj => o \in Reachable
      /\ \A o \in Reachable : o \in Obj /\ \A r \in Refs(o) \cap Obj : r \in Reachable
  BY ReachableCloses
<1>4. \A o \in Unreachable : o \in Obj /\ Exists(o) /\ o \notin Reachable \cup Fixed
  BY DEF Unreachable
<1>5. \A x \in NewlyMarked(Roots) : x \in Obj /\ IsWhite(x) /\ x \in Reachable
  <2>1. UpVals \cup Userdata \subseteq Obj
    BY DEF Obj
  <2>2. \A x \in Roots \cap Obj : x \in Reachable
    BY <1>3
  <2>. QED BY <1>2, <1>3, <2>1, <2>2, MarkedClosed
<1>6. /\ \A o \in Obj : Exists(o)' <=> Exists(o)
      /\ \A o \in Unreachable : marked'[o] = marked[o]
  <2>1. \A o : ColourOf(o) # "free"
    BY DEF ColourOf
  <2>. QED BY <1>1, <1>2, <1>4, <1>5, <2>1 DEF Marking, Exists, IsWhite
<1>7. /\ \A o \in Obj : Refs(o)' = Refs(o)
      /\ (Roots \cup {running} \cup tmudata)' = Roots \cup {running} \cup tmudata
  BY <1>1, SameHeap
<1>8. doomed' \subseteq Obj /\ Outside'
  BY <1>1, <1>3, <1>4, <1>6, <1>7 DEF Outside
<1>9. Apart'
  <2>. SUFFICES ASSUME NEW o \in Obj, o \notin Unreachable, Exists(o), NEW r \in Refs(o) PROVE r \notin Unreachable
    BY <1>1, <1>6, <1>7 DEF Apart
  <2>1. CASE o \in Reachable
    BY <1>3, <1>4, <2>1
  <2>2. CASE o \in Fixed
    BY <2>2, RefsOf, TraversedAssumption, Distinct DEF RefersTo
  <2>. QED BY <2>1, <2>2 DEF Unreachable
<1>10. \A o \in Unreachable : IsWhite(o)'
  BY <1>1, <1>2, <1>3, <1>4, <1>6 DEF Quiet, IsWhite
<1>. QED BY <1>1, <1>8, <1>9, <1>10 DEF Lost, Pale

LEMMA LostPropagate ==
  ASSUME Lost, HeldInv, IInv, IInv', closing = "no", Doom, NEW o \in gray, PropagateMark(o)
  PROVE  Lost'
<1>. DEFINE M == NewlyMarked(Traversed(o))
<1>1. /\ Marks /\ Marks' /\ Continues /\ UNCHANGED currentwhite
      /\ \A x \in Obj : \/ x = o /\ marked'[x] \in {"gray", "black"}
                        \/ x # o /\ marked'[x] = IF x \in M THEN ColourOf(x) ELSE marked[x]
  BY DEF PropagateMark, Marks, Continues, phaseVars, Marking
<1>2. /\ Kinds /\ Fields /\ OneList /\ o \in Waiting /\ o \in Obj /\ marked[o] = "gray"
      /\ Whites \cap {"gray", "free"} = {}
  BY <1>1, WhitesAssumption DEF HeldInv, IInv, OneList, Kinds, Waiting, Obj
<1>3. o \notin doomed /\ Alive(o)
  BY <1>1, <1>2, TwoWhites DEF Lost, Pale, IsWhite, Alive, IsGarbage, IsDead, Exists, Kinds
<1>4. \A r \in Traversed(o) \cap Obj : Alive(r) /\ r \notin doomed
  <2>1. \A r \in Traversed(o) : r \in Refs(o)
    <3>1. CASE o \in Tables
      BY <1>2, <3>1, TraversedOf, RefsOf DEF RefersTo
    <3>2. CASE o \notin Tables
      BY <1>2, <3>2, Distinct DEF Refs, Waiting
    <3>. QED BY <3>1, <3>2
  <2>. QED BY <1>2, <1>3, <2>1, Spared, RefsOf
<1>5. \A x \in M : x \in Obj /\ IsWhite(x) /\ x \notin doomed
  BY <1>4, MarkingSpares
<1>. HIDE DEF M
<1>6. doomed' \subseteq doomed /\ doomed \subseteq Obj
  BY <1>1, Unborn DEF Lost
<1>7. /\ \A x \in doomed' : marked'[x] = marked[x]
      /\ \A x \in Obj : Exists(x)' => Exists(x)
  BY <1>1, <1>2, <1>3, <1>5, <1>6 DEF Exists, IsWhite
<1>8. Gain({}, {})
  BY HeldPropagateMark
<1>. QED BY <1>1, <1>7, <1>8, LostMarks

LEMMA LostAtomic ==
  ASSUME Lost, HeldInv, IInv, IInv', closing = "no", Doom
  PROVE  /\ Atomic => Lost'
         /\ TraverseWeak => Lost'
         /\ TraverseAgain => Lost'
<1>1. Kinds /\ Fields /\ Whites \cap {"gray"} = {}
  BY WhitesAssumption DEF HeldInv, IInv
<1>2. ASSUME Atomic PROVE Lost'
  <2>. DEFINE S == {UpValue(u) : u \in {w \in UpVals : IsOpen(w) /\ marked[w] = "gray"}}
  <2>1. /\ Marks /\ Marks' /\ Continues /\ UNCHANGED <<heapVars, currentwhite>>
        /\ marked' = Marking(marked, NewlyMarked(S))
    BY <1>2 DEF Atomic, Step, Remarked, Marks, Continues, atomicStates
  <2>2. ASSUME NEW u \in UpVals, marked[u] = "gray", UpValue(u) \in Obj
        PROVE  Alive(UpValue(u)) /\ UpValue(u) \notin doomed
    <3>1. u \in Obj /\ u \notin doomed
      BY <1>1, <2>1, <2>2 DEF Lost, Pale, IsWhite, Obj
    <3>2. Alive(u)
      BY <1>1, <2>2, <3>1, LiveOnes
    <3>. QED BY <2>2, <3>1, <3>2, Spared DEF RefersTo
  <2>3. \A x \in S \cap Obj : Alive(x) /\ x \notin doomed
    BY <2>2
  <2>. HIDE DEF S
  <2>. QED BY <2>1, <2>3, LostMarking
<1>3. ASSUME TraverseWeak PROVE Lost'
  <2>1. /\ Marks /\ Marks' /\ Continues /\ UNCHANGED <<heapVars, currentwhite>>
        /\ marked' = Marking(marked, NewlyMarked({running, mt}))
    BY <1>3 DEF TraverseWeak, Step, Marks, Continues, atomicStates
  <2>2. \A x \in {running, mt} \cap Obj : Alive(x) /\ x \notin doomed
    BY Distinct DEF HeldInv, HoldsAlive, Lost, Outside, Roots
  <2>. QED BY <2>1, <2>2, LostMarking
<1>4. ASSUME TraverseAgain PROVE Lost'
  <2>1. /\ Marks /\ Marks' /\ Continues /\ UNCHANGED <<heapVars, currentwhite, marked>>
    BY <1>4 DEF TraverseAgain, Step, Marks, Continues, atomicStates
  <2>. QED BY <2>1, NothingGained, LostMarks DEF Exists
<1>. QED BY <1>2, <1>3, <1>4

LEMMA LostPreserve ==
  ASSUME Lost, HeldInv, IInv, IInv', closing = "no", Doom, Preserve
  PROVE  Lost'
<1>. DEFINE M == White(UNION {With(u) : u \in tmudata'})
<1>1. /\ Marks /\ Marks' /\ Continues /\ UNCHANGED <<heapVars, currentwhite>>
      /\ marked' = [o \in Obj |-> IF o \in tmudata' THEN "black" ELSE IF o \in M THEN "gray" ELSE marked[o]]
      /\ tmudata' \subseteq tmudata \cup Separated(FALSE)
  BY DEF Preserve, Step, separateudata, Marks, Continues, atomicStates
<1>2. /\ Kinds /\ Fields /\ Whites \cap {"free"} = {} /\ Calls /\ Userdata \subseteq Obj
  BY WhitesAssumption DEF HeldInv, IInv, Obj
<1>3. \A r \in M : r \in Obj /\ IsWhite(r) /\ \E u \in tmudata' : r \in With(u)
  BY DEF White
<1>. HIDE DEF M
<1>4. \A u \in tmudata' : u \in Userdata /\ Exists(u)
  BY <1>1, <1>2 DEF Calls, Separated, Linked
<1>5. doomed' \subseteq doomed /\ \A o \in doomed' : o \in Obj /\ o \notin tmudata' /\ o \notin Reachable'
  BY <1>1, Unborn, DoomedNext
<1>6. ASSUME NEW r \in M PROVE r \notin doomed'
  <2>1. PICK u \in tmudata' : r \in With(u)
    BY <1>3
  <2>2. r \in Refs(u)'
    <3>1. u \in Userdata /\ u \in Obj
      BY <1>2, <1>4
    <3>2. With(u) = Refs(u) /\ Refs(u)' = Refs(u)
      BY <1>1, <1>2, <3>1, WithIsRefs, SameHeap
    <3>. QED BY <2>1, <3>2
  <2>3. u \in Reachable'
    BY <1>2, <1>4, ReachableNext
  <2>4. r \in Reachable'
    BY <1>3, <2>2, <2>3, ReachableNext
  <2>. QED BY <1>5, <2>4
<1>7. /\ \A o \in doomed' : marked'[o] = marked[o]
      /\ \A o \in Obj : Exists(o)' => Exists(o)
  BY <1>1, <1>2, <1>3, <1>4, <1>5, <1>6 DEF Exists, IsWhite
<1>. QED BY <1>1, <1>7, NothingGained, LostMarks

LEMMA LostSweeps ==
  ASSUME Lost, IInv', closing = "no", Doom, gcstate' \in {"sweepstring", "sweep", "finalize"},
         NEW N, Learns(N), \A r \in N \cap Obj : r \notin doomed',
         full' # "finish" => \A o \in doomed' : IsDead(o)' /\ gcstate' # "finalize"
  PROVE  Lost'
<1>1. doomed' \subseteq Obj /\ Outside' /\ Apart'
  BY Remains DEF Continues
<1>2. Pale'
  BY <1>1 DEF Pale, Marks, atomicStates
<1>. QED BY <1>1, <1>2 DEF Lost

(* When the whites change places what is doomed is dead: it is not marked  *)
(* with the strings of weak tables either, which are marked themselves.    *)
LEMMA LostAtomicEnd ==
  ASSUME Lost, HeldInv, IInv, IInv', closing = "no", Doom, AtomicEnd
  PROVE  Lost'
<1>1. /\ gcstate = "preserve" /\ gcstate' = "sweepstring" /\ currentwhite' = otherwhite /\ Marks
  BY DEF AtomicEnd, Marks, atomicStates
<1>2. /\ \A o \in Obj : marked'[o] = marked[o] \/ (o \in Strings /\ IsWhite(o) /\ marked'[o] = "gray")
      /\ \A o \in Obj : marked'[o] # marked[o] =>
           \E t \in weak, n \in Node : Entry(t, n) /\ o \in {key[t][n], val[t][n]}
  BY Clears
<1>3. /\ Kinds /\ Fields /\ OneList /\ \A o \in Obj : ~IsDead(o)
      /\ Whites \cap {"gray", "free"} = {} /\ Whites = {currentwhite, otherwhite} /\ otherwhite' = currentwhite
  BY <1>1, TwoWhites, WhitesAssumption DEF HeldInv, IInv, Marked, otherwhite, Kinds
<1>4. ASSUME NEW t \in weak, NEW n \in Node, Entry(t, n), NEW o \in {key[t][n], val[t][n]} \cap Obj
      PROVE  o \notin doomed
  <2>1. t \in Tables /\ t \in Obj /\ marked[t] = "gray"
    BY <1>1, <1>3 DEF OneList, Fields, Obj
  <2>2. Alive(t) /\ t \notin doomed
    BY <1>1, <1>3, <2>1, LiveOnes DEF Lost, Pale, IsWhite
  <2>. QED BY <1>4, <2>1, <2>2, Spared DEF RefersTo
<1>5. doomed' \subseteq doomed /\ doomed \subseteq Obj
  BY <1>1, Unborn DEF Lost, Continues
<1>6. \A o \in doomed' : marked'[o] = marked[o]
  BY <1>2, <1>4, <1>5
<1>7. \A o \in doomed' : IsDead(o)'
  BY <1>1, <1>3, <1>5, <1>6 DEF Lost, Pale, IsWhite, IsDead
<1>8. Learns({Nil})
  <2>1. \A o \in Obj : Exists(o)' => Exists(o)
    BY <1>2, <1>3 DEF Exists, IsWhite
  <2>. QED BY <2>1, HeldAtomicEnd DEF Learns, Gain
<1>. QED BY <1>1, <1>7, <1>8, Distinct, LostSweeps

LEMMA SweptDoomed ==
  ASSUME Lost, HeldInv, IInv, IInv', closing = "no", Doom, gcstate \in {"sweepstring", "sweep"},
         full # "finish", Continues, UNCHANGED currentwhite,
         NEW S, \A o \in S \cap Obj : Exists(o), marked' = Swept(S)
  PROVE  \A o \in doomed' : IsDead(o)'
<1>1. /\ \A o \in Obj \ S : marked'[o] = marked[o]
      /\ \A o \in Obj : o \in S => marked'[o] = IF IsGarbage(o) THEN "free" ELSE currentwhite
  BY SweptAlive
<1>2. \A o \in doomed' : o \in Obj /\ Exists(o)' /\ o \in doomed
  BY Unborn, DoomedNext
<1>3. \A o \in doomed : IsDead(o) /\ o \notin Fixed \cup {mainthread}
  BY DEF Lost, Outside, Pale, Roots
<1>. QED BY <1>1, <1>2, <1>3 DEF IsGarbage, IsDead, Exists, otherwhite

LEMMA LostSweep ==
  ASSUME Lost, HeldInv, IInv, IInv', HeldInv', closing = "no", Doom
  PROVE  /\ SweepString => Lost'
         /\ SweepStep => Lost'
<1>1. Kinds /\ Fields /\ Colouring /\ SweepList
  BY DEF HeldInv, IInv
<1>2. ASSUME SweepString PROVE Lost'
  <2>. DEFINE S == {s \in Strings : Exists(s) /\ hash[s] = sweepstrgc}
  <2>1. /\ gcstate = "sweepstring" /\ gcstate' \in {"sweepstring", "sweep"} /\ marked' = Swept(S)
        /\ UNCHANGED <<heapVars, currentwhite, full>>
    BY <1>2 DEF SweepString
  <2>2. \A o \in S \cap Obj : Exists(o)
    OBVIOUS
  <2>. HIDE DEF S
  <2>3. full' # "finish" => \A o \in doomed' : IsDead(o)'
    BY <2>1, <2>2, SweptDoomed DEF Continues
  <2>4. Learns({})
    BY <2>1, <2>2, SweptAlive, NothingGained DEF Learns, Gain
  <2>. QED BY <2>1, <2>3, <2>4, LostSweeps
<1>3. ASSUME SweepStep PROVE Lost'
  <2>. DEFINE S == {x \in sweepgc : Cardinality({y \in sweepgc : Rank[y] < Rank[x]}) < GCSWEEPMAX}
              open == {u \in UpVals : IsOpen(u) /\ place[u][1] \in S}
  <2>1. /\ gcstate = "sweep" /\ gcstate' \in {"sweep", "finalize"} /\ marked' = Swept(S \cup open)
        /\ UNCHANGED <<currentwhite, full, closing>>
    BY <1>3 DEF SweepStep, Sweep
  <2>2. \A o \in (S \cup open) \cap Obj : Exists(o)
    <3>1. \A o \in S : Exists(o)
      BY <1>1 DEF SweepList
    <3>2. \A o \in open : Exists(o)
      BY <1>1 DEF Colouring
    <3>. QED BY <3>1, <3>2
  <2>. HIDE DEF S, open
  <2>3. full' # "finish" => \A o \in doomed' : IsDead(o)'
    BY <2>1, <2>2, SweptDoomed DEF Continues
  <2>4. ASSUME full' # "finish", gcstate' = "finalize", NEW o \in doomed' PROVE FALSE
    <3>1. o \in Obj /\ Exists(o)' /\ o \notin tmudata'
      BY <2>1, DoomedNext DEF Continues
    <3>2. marked'[o] = currentwhite
      BY <2>1, <2>4, <3>1 DEF HeldInv, Quiet
    <3>3. marked'[o] = otherwhite
      BY <2>1, <2>3, <2>4 DEF IsDead, otherwhite
    <3>. QED BY <1>1, <3>2, <3>3, TwoWhites DEF Kinds
  <2>5. Learns({})
    BY <1>3, <2>1, <2>2, SweptAlive, HeldSweepStep DEF Learns, Gain
  <2>. QED BY <2>1, <2>3, <2>4, <2>5, LostSweeps
<1>. QED BY <1>2, <1>3

LEMMA LostFound ==
  ASSUME doomed = {}, Doom, Continues PROVE Lost'
<1>1. doomed' = {}
  BY DEF Doom, Continues
<1>. QED BY <1>1 DEF Lost, Outside, Apart, Pale

LEMMA LostByCollector ==
  ASSUME Lost, HeldInv, IInv, IInv', HeldInv', Collector PROVE Lost'
<1>1. closing = "no" /\ Doom
  BY DEF Collector, Collect
<1>2. CASE MarkRoot \/ \E o \in gray : PropagateMark(o)
  BY <1>1, <1>2, LostMarkRoot, LostPropagate
<1>3. CASE Atomic \/ TraverseWeak \/ TraverseAgain \/ Preserve \/ AtomicEnd
  BY <1>1, <1>3, LostAtomic, LostPreserve, LostAtomicEnd
<1>4. CASE SweepString \/ SweepStep
  BY <1>1, <1>4, LostSweep
<1>5. CASE Finalize \/ EndCycle
  <2>1. gcstate = "finalize" /\ full # "finish" /\ gcstate' \in {"finalize", "pause"}
    BY <1>5 DEF Finalize, EndCycle, GCTM, phaseVars
  <2>. QED BY <1>1, <2>1, LostFound DEF Lost, Pale, Continues
<1>. QED BY <1>2, <1>3, <1>4, <1>5 DEF Collector, Collect

LEMMA LostByScript ==
  ASSUME Lost, HeldInv, IInv, IInv', HeldInv', closing = "no", Script PROVE Lost'
<1>1. ASSUME NEW l \in Level, Create(l) PROVE Lost'
  <2>1. CASE Doom /\ \/ \E t \in Tables : NewTable(t, l)
                     \/ \E u \in Userdata : NewUserdata(u, l)
                     \/ \E th \in Threads : NewThread(th, l)
                     \/ \E s \in Strings : Intern(s, l)
                     \/ \E c \in Methods : PushMethod(c, l)
    BY <2>1, LostCreate, LostIntern
  <2>2. CASE Doom /\ \E file \in Files : Load(file.c, file.p, file.inner, file.k, l)
    BY <2>2, LostLoad, FilesAssumption
  <2>3. CASE Doom /\ \E f \in Closures, c \in Closures \ Methods, u \in UpVals \cup {Nil} : NewClosure(f, c, u, l)
    BY <2>3, LostNewClosure
  <2>. QED BY <1>1, <2>1, <2>2, <2>3 DEF Create, Operate
<1>2. ASSUME NEW l \in Level, Doom, Return(l) \/ \E v \in Loadable : Move(l, v) PROVE Lost'
  BY <1>2, LostReturn, LostChange
<1>3. CASE Change
  <2>1. Doom
    BY <1>3 DEF Change, Operate
  <2>. QED BY <1>3, <2>1, LostSet, LostChange DEF Change, Operate
<1>. QED BY <1>1, <1>2, <1>3 DEF Script, Operate

(* A collection that is given up promises nothing.                         *)
LEMMA LostFullGC ==
  ASSUME Lost, HeldInv, IInv, IInv', closing = "no", Doom, FullGC
  PROVE  Lost'
<1>1. /\ Continues /\ full' = "finish" /\ ~Marks' /\ UNCHANGED <<heapVars, marked>>
  BY DEF FullGC, Operation, ScriptsRun, Continues, Marks, atomicStates
<1>2. Learns({})
  BY <1>1, NothingGained DEF Learns, Gain, Exists
<1>3. doomed' \subseteq Obj /\ Outside' /\ Apart'
  BY <1>1, <1>2, Remains
<1>. QED BY <1>1, <1>3 DEF Lost, Pale

LEMMA StepLost == Lost /\ Counts /\ HeldInv /\ HeldInv' /\ IInv /\ IInv' /\ [Next]_vars => Lost'
<1>. SUFFICES ASSUME Lost, Counts, HeldInv, HeldInv', IInv, IInv', [Next]_vars PROVE Lost'
  OBVIOUS
<1>1. CASE UNCHANGED vars
  <2>1. /\ UNCHANGED <<heapVars, marked, currentwhite, tmudata, gcstate, full, closing, doomed>>
    BY <1>1 DEF vars, udataVars, phaseVars
  <2>2. /\ \A o \in Obj : Refs(o)' = Refs(o)
        /\ Roots' = Roots /\ running' = running
    BY <2>1, SameHeap
  <2>3. \A o : (IsDead(o)' <=> IsDead(o)) /\ (IsWhite(o)' <=> IsWhite(o)) /\ (Exists(o)' <=> Exists(o))
    BY <2>1, SameAlive
  <2>4. Marks' <=> Marks
    BY <2>1 DEF Marks
  <2>5. Outside' <=> Outside
    BY <2>1, <2>2, <2>3 DEF Outside
  <2>6. Apart' <=> Apart
    BY <2>1, <2>2, <2>3 DEF Apart
  <2>7. Pale' <=> Pale
    BY <2>1, <2>3, <2>4 DEF Pale
  <2>. QED BY <2>1, <2>5, <2>6, <2>7 DEF Lost
<1>2. CASE Next /\ closing # "no"
  BY <1>2, StepTally, Dooms DEF Lost, Tally
<1>3. CASE Next /\ closing = "no"
  <2>1. Doom
    BY <1>3, StepTally
  <2>2. CASE LuaClose
    BY <2>1, <2>2, Dooms DEF LuaClose, Lost
  <2>3. CASE FullGC
    BY <1>3, <2>1, <2>3, LostFullGC
  <2>4. ~CallGCTM /\ ~FreeAll
    BY <1>3 DEF CallGCTM, FreeAll
  <2>. QED BY <1>3, <2>2, <2>3, <2>4, LostByCollector, LostByScript DEF Next, Operate
<1>. QED BY <1>1, <1>2, <1>3

(* What nothing leads to when a cycle begins is freed in it, however long  *)
(* the chains and cycles of garbage are, unless a script finds it again as *)
(* a string or an open upvalue, or a finalizer is called with it.          *)
THEOREM GarbageFreed == Spec => []FreedInCycle
<1>1. Init => Lost
  BY DEF Init, Lost, Outside, Apart, Pale
<1>2. Lost => FreedInCycle
  BY DEF Lost, Pale, FreedInCycle
<1>. QED BY <1>1, <1>2, StepLost, Invariance, Held, InitCounts, StepCounts, PTL DEF Spec
================================================================================
