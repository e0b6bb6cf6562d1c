--------------------------------- MODULE LuaGC ---------------------------------
(***************************************************************************)
(* The incremental garbage collector of the Lua that runs every script:    *)
(* lgc.c and lgc.h, the upvalues of lfunc.c, the interned strings of       *)
(* lstring.c and the states and threads of lstate.c.                       *)
(*                                                                         *)
(* A step is one operation of a script (or of a library) or one step of    *)
(* the collector: singlestep, where atomic, which no script interrupts, is *)
(* cut at its calls of propagateall.  The lists of the collector are sets: *)
(* as nothing depends on their order, Rank says what a step takes first.   *)
(* Tables have a fixed number of nodes (the array part is nodes with the   *)
(* key Number), stacks a fixed number of levels; what is above the top of  *)
(* a stack is Nil.  Whether a table, used as a metatable, has a __mode or  *)
(* a __gc never changes.                                                   *)
(***************************************************************************)
EXTENDS Integers, FiniteSets

CONSTANTS Strings, Tables, Closures, Protos, Userdata, Threads, UpVals,
          Methods,      \* the closures that are Objective-C methods (isC = 2)
          mainthread, registry,
          Fixed,        \* strings that luaS_fix has fixed
          hash,         \* the chain of each string in the string table
          Size,         \* the chains of the string table
          Node, Level,  \* nodes of a table, levels of a stack
          KeyWeak, ValueWeak,    \* metatables with a "k", a "v" in __mode
          HasGC,        \* metatables with a __gc
          Nil, Number,  \* no object; any value that is not one
          DeadKey,      \* the key of an entry that was removed
          Closed,       \* the place of an upvalue that is closed
          GCSWEEPMAX,   \* the most objects one step sweeps
          Rank,         \* the order of the objects in the collector's lists
          Heaps,        \* what scripts have built when the run begins
          Whites,       \* the two whites; they take turns
          Files,        \* what can be loaded: c, p, inner and k of each
          MaxSteps      \* bounds the operations of scripts

Obj == Strings \cup Tables \cup Closures \cup Protos \cup Userdata
         \cup Threads \cup UpVals
Object == Strings \cup Tables \cup Closures \cup Userdata \cup Threads
Value == Object \cup {Nil, Number}

(* An object is of one kind, and neither a colour nor what is not an       *)
(* object is mistaken for one.                                             *)
ASSUME KindsAssumption ==
  /\ Userdata \cap Strings = {} /\ (Userdata \cup Strings) \cap UpVals = {}
  /\ (Userdata \cup Strings \cup UpVals) \cap (Tables \cup Closures \cup Protos \cup Threads) = {}
  /\ Tables \cap Threads = {} /\ Methods \subseteq Closures
  /\ mainthread \in Threads /\ Nil \notin Obj
ASSUME TraversedAssumption ==
  /\ Closures \cap (Tables \cup Threads) = {} /\ Protos \cap (Tables \cup Closures \cup Threads) = {}
  /\ registry \in Tables /\ Fixed \subseteq Strings
  /\ hash \in [Strings -> 0 .. Size - 1] /\ Size \in Nat
  /\ {Number, DeadKey} \cap Obj = {} /\ DeadKey \notin {Nil, Number}
  /\ Closed \notin Threads \X Level
ASSUME BoundsAssumption == IsFiniteSet(Obj) /\ MaxSteps \in Nat
ASSUME WhitesAssumption ==
  /\ \E w \in Whites : \E x \in Whites \ {w} : Whites = {w, x}
  /\ Whites \cap {"gray", "black", "free"} = {}
ASSUME FilesAssumption ==
  \A f \in Files : /\ f.c \in Closures /\ f.p \in Protos
                   /\ f.inner \in Protos \cup {Nil} /\ f.k \in Strings \cup {Nil}
(* What scripts have built refers to what there is.                        *)
ASSUME HeapsAssumption ==
  \A h \in Heaps :
    LET Kind(S) == (S \cap h.exists) \cup {Nil}
        Any == Kind(Object) \cup {Number}
    IN /\ h.exists \subseteq Obj /\ {mainthread, registry} \subseteq h.exists
       /\ h.meta \in [Tables \cup Userdata -> Kind(Tables)]
       /\ h.env \in [Closures \cup Userdata \cup Threads -> Kind(Tables)]
       /\ h.key \in [Tables -> [Node -> Any]] /\ h.val \in [Tables -> [Node -> Any]]
       /\ h.proto \in [Closures -> Kind(Protos)] /\ h.upval \in [Closures -> Kind(UpVals)]
       /\ h.k \in [Protos -> Kind(Strings)] /\ h.inner \in [Protos -> Kind(Protos)]
       /\ h.stack \in [Threads -> [Level -> Any]]
       /\ h.value \in [UpVals -> Any]
       /\ h.place \in [UpVals -> ((Threads \cap h.exists) \X Level) \cup {Closed}]
       /\ \A u \in UpVals : h.place[u] # Closed => u \in h.exists

VARIABLES meta, key, val,        \* of tables (and the metatable of userdata)
          env,                   \* of closures, userdata and threads (l_gt)
          proto, upval,          \* of closures, which have at most one
          k, inner,              \* of prototypes: a constant, a nested one
          stack, callee,         \* of threads: levels, what resume resumes
          place, value,          \* of upvalues: on which stack, or closed
          mt,                    \* the metatable of strings
          running,               \* the thread that runs
          marked,                \* of every object: "free" before it exists
          currentwhite, gcstate, gray, grayagain, weak,
          sweepstrgc, sweepgc,   \* what is still to sweep
          tmudata, finalized,
          full,                  \* what luaC_fullgc is at
          closing,               \* what lua_close is at
          totalbytes,
          called,                \* ghost: finalizers called
          doomed,                \* ghost: unreachable when the cycle began
          steps                  \* counts operations

tableVars == <<meta, key, val>>
closureVars == <<proto, upval, k, inner>>
threadVars == <<stack, callee, running>>
upvalVars == <<place, value>>
heapVars == <<tableVars, env, closureVars, threadVars, upvalVars, mt>>
listVars == <<gray, grayagain, weak>>
sweepVars == <<sweepstrgc, sweepgc>>
udataVars == <<tmudata, finalized, called>>
phaseVars == <<currentwhite, gcstate, full, closing>>
vars == <<heapVars, marked, listVars, sweepVars, udataVars, phaseVars,
          totalbytes, doomed, steps>>

--------------------------------------------------------------------------------
(* Colours.  A marked object is gray or black; gray objects wait in a list *)
(* to be traversed, save strings and open upvalues.                        *)
Other(w) == CHOOSE x \in Whites : x # w
otherwhite == Other(currentwhite)

Exists(o) == marked[o] # "free"
IsWhite(o) == marked[o] \in Whites
IsBlack(o) == marked[o] = "black"
IsDead(o) == marked[o] = otherwhite
Collectable(v) == v \in Object

IsOpen(u) == place[u] # Closed
(* uv->v: the value of an upvalue is on a stack until it is closed. *)
UpValue(u) == IF IsOpen(u) THEN stack[place[u][1]][place[u][2]] ELSE value[u]

WeakKeys(t) == meta[t] \in KeyWeak
WeakValues(t) == meta[t] \in ValueWeak

(* A table entry is there while its value is not nil. *)
Entry(t, n) == val[t][n] # Nil

(* What reallymarkobject marks along with an object... *)
With(o) == CASE o \in Userdata -> {meta[o], env[o]}
             [] o \in UpVals -> {UpValue(o)}
             [] OTHER -> {}

(* ... and what the traversal of a gray object marks: traversetable,       *)
(* traverseclosure, traverseproto and traversestack.                       *)
Traversed(o) ==
  CASE o \in Tables ->
         {meta[o]}
           \cup (IF WeakKeys(o) THEN {} ELSE {key[o][n] : n \in {m \in Node : Entry(o, m)}})
           \cup (IF WeakValues(o) THEN {} ELSE {val[o][n] : n \in Node})
    [] o \in Closures -> {env[o], proto[o], upval[o]}
    [] o \in Protos -> {k[o], inner[o]}
    [] o \in Threads -> {env[o], callee[o]} \cup {stack[o][l] : l \in Level}
    [] OTHER -> {}

(* markobject and reallymarkobject, of all objects of S that are white: a  *)
(* marked upvalue marks its value and a marked userdata its two tables.    *)
White(S) == {o \in S \cap Obj : IsWhite(o)}
NewlyMarked(S) ==
  LET direct == White(S)
      values == direct \cup White(UNION {With(u) : u \in direct \cap UpVals})
  IN values \cup White(UNION {With(u) : u \in values \cap Userdata})

(* Userdata and closed upvalues become black at once.                      *)
ColourOf(o) == IF o \in Userdata \/ (o \in UpVals /\ ~IsOpen(o))
               THEN "black" ELSE "gray"
Marking(colours, M) == [o \in Obj |-> IF o \in M THEN ColourOf(o) ELSE colours[o]]
ToTraverse(M) == M \cap (Closures \cup Tables \cup Threads \cup Protos)

Whitened(colours, S) == [o \in Obj |-> IF o \in S THEN currentwhite ELSE colours[o]]

First(S) == {o \in S : \A x \in S : Rank[o] <= Rank[x]}

--------------------------------------------------------------------------------
(* All objects the sweep of rootgc comes to: neither strings, nor open     *)
(* upvalues (their threads have them), nor userdata to be finalized.       *)
Linked(o) == /\ Exists(o)
             /\ o \notin Strings \cup tmudata
             /\ o \in UpVals => ~IsOpen(o)
Root == {o \in Obj : Linked(o)}

(* luaC_link: a new object comes to the front of rootgc (userdata behind   *)
(* the main thread), which a sweep has passed or not.                      *)
Link(S) == IF gcstate = "sweep" THEN sweepgc' \in {sweepgc, sweepgc \cup S}
           ELSE IF gcstate = "sweepstring" THEN sweepgc' = sweepgc \cup S
           ELSE sweepgc' = sweepgc

(* Sizes: of methods, what luaF_newObjCclosure allocates and what          *)
(* luaF_freeclosure takes back is not the same.                            *)
Allocated(o) == IF o \in Methods THEN 2 ELSE 1
Freed(o) == 1

(* The collector's own calls run no script, save finalizers. *)
atomicStates == {"remark", "reweak", "again", "preserve"}
ScriptsRun == /\ gcstate \notin atomicStates
              /\ full = "no" \/ (full = "collect" /\ gcstate = "finalize")
              /\ closing # "closed"

(* An operation of the running script.  MaxSteps bounds them. *)
Operation == ScriptsRun /\ steps < MaxSteps /\ steps' = steps + 1

(* What the running code has on its stack, and what it can load: from a    *)
(* table by a key (lua_next gives the key too), also the environment, from *)
(* an upvalue or a metatable.  The operands of an operation, but for the   *)
(* key of a table, are loaded with it.                                     *)
OnStack == {stack[running][l] : l \in Level}

Loadable == OnStack \cup {Nil, env[running]}
  \cup (UNION {UNION {{val[t][n], key[t][n]} : n \in {m \in Node : Entry(t, m)}}
                 : t \in (OnStack \cup {env[running]}) \cap Tables})
  \cup {UpValue(upval[c]) : c \in {f \in OnStack \cap Closures : upval[f] # Nil}}
  \cup {meta[o] : o \in OnStack \cap (Tables \cup Userdata)}

Push(l, v) == stack' = [stack EXCEPT ![running][l] = v]

New(o) == /\ ~Exists(o)
          /\ totalbytes' = totalbytes + Allocated(o)

--------------------------------------------------------------------------------
(* luaC_barrierf: a black object o got a reference to a white v. While     *)
(* marking v is marked; later o is made white, to be swept early.          *)
BarrierForward(colours, o, v) ==
  IF v \in Obj /\ IsWhite(v) /\ colours[o] = "black"
  THEN IF gcstate = "propagate"
       THEN /\ marked' = Marking(colours, NewlyMarked({v}))
            /\ gray' = gray \cup ToTraverse(NewlyMarked({v}))
       ELSE /\ marked' = Whitened(colours, {o})
            /\ gray' = gray
  ELSE marked' = colours /\ gray' = gray

(* Mutant: whatever its colour, the table goes to the list. *)
BarrierBackAlways(t, S) ==
  IF White(S) # {}
  THEN /\ marked' = [marked EXCEPT ![t] = "gray"]
       /\ grayagain' = grayagain \cup {t}
  ELSE UNCHANGED <<marked, grayagain>>

(* luaC_barrierback: a black table got a reference to one of S: it is gray *)
(* again, and traversed once more at the end.                              *)
BarrierBack(t, S) ==
  IF IsBlack(t) /\ White(S) # {}
  THEN /\ marked' = [marked EXCEPT ![t] = "gray"]
       /\ grayagain' = grayagain \cup {t}
  ELSE UNCHANGED <<marked, grayagain>>

--------------------------------------------------------------------------------
(* Operations that create objects.  They put them on the running stack.    *)
Alloc(o, l) ==
  /\ Operation /\ New(o)
  /\ marked' = [marked EXCEPT ![o] = currentwhite]
  /\ Push(l, o)
  /\ UNCHANGED <<callee, running, mt, listVars, sweepstrgc, phaseVars>>

NewTable(t, l) ==
  /\ Alloc(t, l) /\ Link({t})
  /\ meta' = [meta EXCEPT ![t] = Nil]
  /\ key' = [key EXCEPT ![t] = [n \in Node |-> Nil]]
  /\ val' = [val EXCEPT ![t] = [n \in Node |-> Nil]]
  /\ UNCHANGED <<env, closureVars, upvalVars, udataVars>>

(* luaS_newudata, with the environment of the running code. *)
NewUserdata(u, l) ==
  /\ Alloc(u, l) /\ Link({u})
  /\ meta' = [meta EXCEPT ![u] = Nil]
  /\ env' = [env EXCEPT ![u] = env[running]]
  /\ finalized' = finalized \ {u}
  /\ called' = [called EXCEPT ![u] = 0]
  /\ UNCHANGED <<key, val, closureVars, upvalVars, tmudata>>

(* luaE_newthread. *)
NewThread(th, l) ==
  /\ Operation /\ New(th)
  /\ marked' = [marked EXCEPT ![th] = currentwhite]
  /\ Link({th})
  /\ stack' = [stack EXCEPT ![running][l] = th, ![th] = [m \in Level |-> Nil]]
  /\ callee' = [callee EXCEPT ![th] = Nil]
  /\ env' = [env EXCEPT ![th] = env[running]]
  /\ UNCHANGED <<tableVars, closureVars, upvalVars, running, mt, listVars,
                 sweepstrgc, udataVars, phaseVars>>

(* Mutant: what is found dead stays dead. *)
LeftDead(o) == marked[o]

(* A dead object that is found before it is swept lives again. *)
Revived(o) == IF IsDead(o) THEN currentwhite ELSE marked[o]

(* luaS_newlstr: the string in the string table, or a new one. *)
Intern(s, l) ==
  /\ Operation
  /\ Push(l, s)
  /\ marked' = [marked EXCEPT ![s] = IF Exists(s) THEN Revived(s) ELSE currentwhite]
  /\ totalbytes' = totalbytes + (IF Exists(s) THEN 0 ELSE Allocated(s))
  /\ UNCHANGED <<tableVars, env, closureVars, upvalVars, callee, running, mt,
                 listVars, sweepVars, udataVars, phaseVars>>

(* lua_load: a prototype with a constant from the stack and perhaps a      *)
(* nested prototype, and the closure of it.                                *)
Load(c, p, q, s, l) ==
  /\ Operation
  /\ ~Exists(p) /\ ~Exists(c) /\ q # p /\ (q # Nil => ~Exists(q))
  /\ s \in Loadable
  /\ LET new == {c, p} \cup ({q} \ {Nil})
     IN /\ marked' = Whitened(marked, new)
        /\ totalbytes' = totalbytes + Cardinality(new)
        /\ Link(new)
  /\ k' = [r \in Protos |-> IF r = p THEN s ELSE IF r = q THEN Nil ELSE k[r]]
  /\ inner' = [r \in Protos |-> IF r = p THEN q ELSE IF r = q THEN Nil ELSE inner[r]]
  /\ proto' = [proto EXCEPT ![c] = p]
  /\ upval' = [upval EXCEPT ![c] = Nil]
  /\ env' = [env EXCEPT ![c] = env[running]]
  /\ Push(l, c)
  /\ UNCHANGED <<tableVars, upvalVars, callee, running, mt, listVars,
                 sweepstrgc, udataVars, phaseVars>>

(* lua_pushObjCclosure, as Script.m does: a method without upvalues. *)
PushMethod(c, l) ==
  /\ Alloc(c, l) /\ Link({c})
  /\ env' = [env EXCEPT ![c] = env[running]]
  /\ proto' = [proto EXCEPT ![c] = Nil]
  /\ upval' = [upval EXCEPT ![c] = Nil]
  /\ UNCHANGED <<tableVars, k, inner, upvalVars, udataVars>>

(* luaF_findupval: the open upvalue u of level m, made if there is none.   *)
FindUpVal(u, m) ==
  IF Exists(u)
  THEN place[u] = <<running, m>> /\ UNCHANGED place
  ELSE /\ \A w \in UpVals : place[w] # <<running, m>>
       /\ place' = [place EXCEPT ![u] = <<running, m>>]

(* OP_CLOSURE: a closure c of the prototype nested in that of the function *)
(* f, with an upvalue: f's own one, or that of a level of the stack.       *)
NewClosure(f, c, u, l) ==
  /\ Operation
  /\ ~Exists(c)
  /\ f \in Loadable
  /\ proto[f] # Nil /\ inner[proto[f]] # Nil
  /\ \/ u = upval[f] /\ UNCHANGED place
     \/ u # Nil /\ \E m \in Level : FindUpVal(u, m)
  /\ LET new == IF u = Nil \/ Exists(u) THEN {} ELSE {u}
     IN /\ marked' = [o \in Obj |-> IF o \in {c} \cup new THEN currentwhite
                                    ELSE IF o = u /\ place'[u] # Closed THEN Revived(o)
                                    ELSE marked[o]]
        /\ totalbytes' = totalbytes + Cardinality({c} \cup new)
  /\ Link({c})
  /\ proto' = [proto EXCEPT ![c] = inner[proto[f]]]
  /\ upval' = [upval EXCEPT ![c] = u]
  /\ env' = [env EXCEPT ![c] = env[f]]
  /\ Push(l, c)
  /\ UNCHANGED <<tableVars, k, inner, value, callee, running, mt, listVars,
                 sweepstrgc, udataVars, phaseVars>>

--------------------------------------------------------------------------------
(* Operations on what is there. *)
Unmarked == UNCHANGED <<marked, listVars, sweepVars, udataVars, phaseVars, totalbytes>>

Move(l, v) ==
  /\ Operation
  /\ v \in Loadable
  /\ Push(l, v)
  /\ UNCHANGED <<tableVars, env, closureVars, upvalVars, callee, running, mt>>
  /\ Unmarked

(* luaV_settable, lua_rawset: a new key takes a free node, with a barrier  *)
(* of its own in newkey; then the value.                                   *)
SetTable(t, n, kk, v) ==
  /\ Operation
  /\ {t, v} \subseteq Loadable /\ kk \in Loadable \cup {Number}
  /\ kk # Nil
  /\ IF \E m \in Node : Entry(t, m) /\ key[t][m] = kk
     THEN Entry(t, n) /\ key[t][n] = kk
     ELSE ~Entry(t, n) /\ v # Nil
  /\ key' = [key EXCEPT ![t][n] = kk]
  /\ val' = [val EXCEPT ![t][n] = v]
  /\ BarrierBack(t, IF Entry(t, n) THEN {v} ELSE {kk, v})
  /\ UNCHANGED <<meta, env, closureVars, threadVars, upvalVars, mt, gray, weak,
                 sweepVars, udataVars, phaseVars, totalbytes>>

(* lua_setmetatable: of a table, a userdata or all strings.                *)
SetMetatable(o, m) ==
  /\ Operation
  /\ {o, m} \subseteq Loadable
  /\ meta' = [meta EXCEPT ![o] = m]
  /\ \/ o \in Tables /\ BarrierBack(o, {m}) /\ UNCHANGED gray
     \/ o \in Userdata /\ BarrierForward(marked, o, m) /\ UNCHANGED grayagain
  /\ UNCHANGED <<key, val, env, closureVars, threadVars, upvalVars, mt, weak,
                 sweepVars, udataVars, phaseVars, totalbytes>>

SetStringMetatable(m) ==
  /\ Operation
  /\ m \in Loadable
  /\ mt' = m
  /\ UNCHANGED <<tableVars, env, closureVars, threadVars, upvalVars>>
  /\ Unmarked

(* lua_setfenv, of a function, a userdata or a thread. *)
SetEnv(o, t) ==
  /\ Operation
  /\ {o, t} \subseteq Loadable
  /\ env' = [env EXCEPT ![o] = t]
  /\ BarrierForward(marked, o, t)
  /\ UNCHANGED <<tableVars, closureVars, threadVars, upvalVars, mt, grayagain,
                 weak, sweepVars, udataVars, phaseVars, totalbytes>>

(* OP_SETUPVAL. *)
SetUpVal(c, v) ==
  /\ Operation
  /\ {c, v} \subseteq Loadable
  /\ LET uv == upval[c]
     IN /\ uv # Nil
        /\ IF IsOpen(uv)
           THEN stack' = [stack EXCEPT ![place[uv][1]][place[uv][2]] = v] /\ UNCHANGED value
           ELSE value' = [value EXCEPT ![uv] = v] /\ UNCHANGED stack
        /\ BarrierForward(marked, uv, v)
  /\ UNCHANGED <<tableVars, env, closureVars, callee, running, place, mt, grayagain,
                 weak, sweepVars, udataVars, phaseVars, totalbytes>>

(* luaF_close of the open upvalues S: a dead one is freed, another takes   *)
(* its value off the stack; luaC_linkupval makes a gray one black, with a  *)
(* barrier, or sweeps it at once.                                          *)
Close(S) ==
  LET dead == {u \in S : IsDead(u)}
      grays == {u \in S : marked[u] = "gray"}
      M == IF gcstate = "propagate" THEN NewlyMarked({UpValue(u) : u \in grays}) ELSE {}
  IN /\ marked' = [o \in Obj |-> IF o \in dead THEN "free"
                                 ELSE IF o \in M THEN ColourOf(o)
                                 ELSE IF o \notin grays THEN marked[o]
                                 ELSE IF gcstate = "propagate" THEN "black"
                                 ELSE currentwhite]
     /\ gray' = gray \cup ToTraverse(M)
     /\ place' = [u \in UpVals |-> IF u \in S THEN Closed ELSE place[u]]
     /\ value' = [u \in UpVals |-> IF u \in S THEN UpValue(u) ELSE value[u]]
     /\ totalbytes' = totalbytes - Cardinality(dead)
     /\ Link(S \ dead)

OpenFrom(th, l) == {u \in UpVals : \E m \in Level : m >= l /\ place[u] = <<th, m>>}

(* A block or a function ends: its levels are given up. *)
Return(l) ==
  /\ Operation
  /\ Close(OpenFrom(running, l))
  /\ stack' = [stack EXCEPT ![running] = [m \in Level |-> IF m >= l THEN Nil ELSE @[m]]]
  /\ UNCHANGED <<tableVars, env, closureVars, callee, running, mt, grayagain, weak,
                 sweepstrgc, udataVars, phaseVars>>

(* coroutine.resume and yield: the coroutine stays on the stack of the C   *)
(* function that resumes it.                                               *)
Resume(th) ==
  /\ Operation
  /\ th \in Loadable /\ th # mainthread
  /\ th # running /\ callee[th] = Nil
  /\ running' = th
  /\ callee' = [callee EXCEPT ![running] = th]
  /\ UNCHANGED <<tableVars, env, closureVars, stack, upvalVars, mt>>
  /\ Unmarked

Yield(th) ==
  /\ Operation
  /\ callee[th] = running
  /\ running' = th
  /\ callee' = [callee EXCEPT ![th] = Nil]
  /\ UNCHANGED <<tableVars, env, closureVars, stack, upvalVars, mt>>
  /\ Unmarked

--------------------------------------------------------------------------------
(* The collector.  markroot: *)
Roots == {mainthread, registry, env[mainthread], mt}

MarkRoot ==
  /\ \/ gcstate = "pause" /\ full = "no"
     \/ gcstate = "finalize" /\ full = "finish"
  /\ full' = IF full = "no" THEN "no" ELSE "collect"
  /\ gcstate' = "propagate"
  /\ LET M == NewlyMarked({mainthread, env[mainthread], registry, mt})
     IN marked' = Marking(marked, M) /\ gray' = ToTraverse(M)
  /\ grayagain' = {}
  /\ weak' = {}
  /\ UNCHANGED <<heapVars, sweepVars, udataVars, currentwhite, closing, totalbytes, steps>>

(* traversetable removes the entries without a value it comes to, and      *)
(* comes to none in a table whose keys and values are weak.                *)
RemoveEmpty(t) ==
  [key EXCEPT ![t] = [n \in Node |->
     IF ~Entry(t, n) /\ Collectable(key[t][n]) /\ ~(WeakKeys(t) /\ WeakValues(t))
     THEN DeadKey ELSE key[t][n]]]

(* propagatemark: the object gets black; a table with a weak part stays    *)
(* gray, to be cleared, and a thread, to be traversed again.               *)
PropagateMark(o) ==
  /\ gcstate \in {"propagate"} \cup atomicStates
  /\ o \in First(gray)
  /\ LET M == NewlyMarked(Traversed(o))
         staysGray == o \in Threads \/ (o \in Tables /\ (WeakKeys(o) \/ WeakValues(o)))
     IN /\ marked' = [Marking(marked, M) EXCEPT ![o] = IF staysGray THEN "gray" ELSE "black"]
        /\ gray' = (gray \ {o}) \cup ToTraverse(M)
        /\ weak' = IF staysGray /\ o \in Tables THEN weak \cup {o} ELSE weak
  /\ grayagain' = IF o \in Threads THEN grayagain \cup {o} ELSE grayagain
  /\ key' = IF o \in Tables THEN RemoveEmpty(o) ELSE key
  /\ UNCHANGED <<meta, val, env, closureVars, threadVars, upvalVars, mt, sweepVars,
                 udataVars, phaseVars, totalbytes, steps>>

(* atomic, up to its first propagateall: remarkupvals marks the values of  *)
(* gray upvalues, which threads that are not marked may still have.        *)
Remarked == NewlyMarked({UpValue(u) : u \in {w \in UpVals : IsOpen(w) /\ marked[w] = "gray"}})

Step(from, to) ==
  /\ gcstate = from /\ gcstate' = to
  /\ gray = {}
  /\ UNCHANGED <<heapVars, sweepstrgc, full, closing, steps>>

Atomic ==
  /\ Step("propagate", "remark")
  /\ marked' = Marking(marked, Remarked)
  /\ gray' = ToTraverse(Remarked)
  /\ UNCHANGED <<grayagain, weak, sweepgc, udataVars, currentwhite, totalbytes>>

(* ... up to the second: the weak tables, the running thread, mt.          *)
TraverseWeak ==
  /\ Step("remark", "reweak")
  /\ LET M == NewlyMarked({running, mt})
     IN marked' = Marking(marked, M) /\ gray' = weak \cup ToTraverse(M)
  /\ weak' = {}
  /\ UNCHANGED <<grayagain, sweepgc, udataVars, currentwhite, totalbytes>>

(* ... the third: what was put back by barriers, and the threads. *)
TraverseAgain ==
  /\ Step("reweak", "again")
  /\ gray' = grayagain
  /\ grayagain' = {}
  /\ UNCHANGED <<marked, weak, sweepgc, udataVars, currentwhite, totalbytes>>

(* Mutants: a userdata that was finalized is separated again; userdata are *)
(* separated when the state is closed only.                                *)
SeparatedAgain(all) == {u \in Userdata : Linked(u) /\ (all \/ IsWhite(u))}
SeparatedAtClose(all) == {u \in Userdata : Linked(u) /\ u \notin finalized /\ all}

(* luaC_separateudata: userdata to be finalized; with all, those that are  *)
(* still in use too.                                                       *)
Separated(all) ==
  {u \in Userdata : Linked(u) /\ u \notin finalized /\ (all \/ IsWhite(u))}
separateudata(all) ==
  /\ finalized' = finalized \cup Separated(all)
  /\ tmudata' = tmudata \cup {u \in Separated(all) : meta[u] \in HasGC}
  /\ UNCHANGED called

(* ... the fourth: marktmu marks them, also those of an earlier cycle.     *)
Preserve ==
  /\ Step("again", "preserve")
  /\ separateudata(FALSE)
  /\ LET M == White(UNION {With(u) : u \in tmudata'})
     IN /\ marked' = [o \in Obj |-> IF o \in tmudata' THEN "black"
                                    ELSE IF o \in M THEN "gray" ELSE marked[o]]
        /\ gray' = M
  /\ UNCHANGED <<grayagain, weak, sweepgc, currentwhite, totalbytes>>

(* iscleared, of a key or a value of a weak table: strings are marked and  *)
(* stay; userdata to be finalized stay as keys.                            *)
IsCleared(v, iskey) ==
  /\ Collectable(v) /\ v \notin Strings
  /\ IsWhite(v) \/ (v \in Userdata /\ ~iskey /\ v \in finalized)

Cleared(t, n) ==
  /\ t \in weak /\ Entry(t, n)
  /\ \/ Collectable(key[t][n]) /\ (IsCleared(key[t][n], TRUE) \/ IsCleared(val[t][n], FALSE))
     \/ ~Collectable(key[t][n]) /\ IsCleared(val[t][n], FALSE)

(* ... its end: cleartable, and the whites change places.                  *)
AtomicEnd ==
  /\ gcstate = "preserve" /\ gcstate' = "sweepstring"
  /\ gray = {}
  /\ LET kept == {e \in weak \X Node : Entry(e[1], e[2]) /\ ~IsCleared(key[e[1]][e[2]], TRUE)}
         strings == Strings \cap UNION {{key[e[1]][e[2]], val[e[1]][e[2]]} : e \in kept}
     IN marked' = Marking(marked, {s \in strings : IsWhite(s)})
  /\ val' = [t \in Tables |-> [n \in Node |-> IF Cleared(t, n) THEN Nil ELSE val[t][n]]]
  /\ key' = [t \in Tables |-> [n \in Node |->
               IF Cleared(t, n) /\ Collectable(key[t][n]) THEN DeadKey ELSE key[t][n]]]
  /\ currentwhite' = otherwhite
  /\ sweepstrgc' = 0
  /\ sweepgc' = Root
  /\ UNCHANGED <<meta, env, closureVars, threadVars, upvalVars, mt, listVars, udataVars,
                 full, closing, totalbytes, steps>>

--------------------------------------------------------------------------------
(* Mutant: threads are never garbage. *)
IsGarbageUnlessThread(o) == IsDead(o) /\ o \notin Fixed \cup Threads

(* Sweeping: what is dead and not fixed is freed, the rest is made white.  *)
IsGarbage(o) == IsDead(o) /\ o \notin Fixed \cup {mainthread}

Swept(S) == [o \in Obj |-> IF o \notin S THEN marked[o]
                          ELSE IF IsGarbage(o) THEN "free" ELSE currentwhite]
Freeing(S) == totalbytes' = totalbytes - Cardinality({o \in S : IsGarbage(o)})

SweepString ==
  /\ gcstate = "sweepstring"
  /\ LET chain == {s \in Strings : Exists(s) /\ hash[s] = sweepstrgc}
     IN marked' = Swept(chain) /\ Freeing(chain)
  /\ sweepstrgc' = sweepstrgc + 1
  /\ gcstate' = IF sweepstrgc' >= Size THEN "sweep" ELSE gcstate
  /\ UNCHANGED <<heapVars, listVars, sweepgc, udataVars, currentwhite, full, closing, steps>>

(* Mutant: the upvalues a freed thread leaves stay open. *)
SweepThread(S) ==
  LET open == {u \in UpVals : IsOpen(u) /\ place[u][1] \in S}
  IN /\ marked' = Swept(S \cup open)
     /\ Freeing(S \cup open)
     /\ place' = [u \in UpVals |-> IF u \in open /\ IsGarbage(u) THEN Closed ELSE place[u]]
     /\ UNCHANGED value
     /\ sweepgc' = sweepgc \ S

(* sweeplist of the objects S of rootgc: a thread's open upvalues go with  *)
(* it, and if it is freed (luaE_freethread) those that are alive are       *)
(* closed.                                                                 *)
Sweep(S) ==
  LET open == {u \in UpVals : IsOpen(u) /\ place[u][1] \in S}
      closing_ == {u \in open : ~IsGarbage(u) /\ IsGarbage(place[u][1])}
      gone == {u \in open : IsGarbage(u)} \cup closing_
  IN /\ marked' = Swept(S \cup open)
     /\ Freeing(S \cup open)
     /\ place' = [u \in UpVals |-> IF u \in gone THEN Closed ELSE place[u]]
     /\ value' = [u \in UpVals |-> IF u \in gone THEN UpValue(u) ELSE value[u]]
     /\ sweepgc' \in {sweepgc \ S, (sweepgc \ S) \cup closing_}

SweepStep ==
  /\ gcstate = "sweep"
  /\ Sweep({x \in sweepgc : Cardinality({y \in sweepgc : Rank[y] < Rank[x]}) < GCSWEEPMAX})
  /\ gcstate' = IF sweepgc' = {} THEN "finalize" ELSE gcstate
  /\ UNCHANGED <<tableVars, env, closureVars, threadVars, mt, listVars, sweepstrgc,
                 udataVars, currentwhite, full, closing, steps>>

(* GCTM: the userdata returns to rootgc, white, and its finalizer, if it   *)
(* still has one, is called with it, on the stack of the running thread.   *)
GCTM(u) ==
  /\ u \in tmudata
  /\ tmudata' = tmudata \ {u}
  /\ marked' = [marked EXCEPT ![u] = currentwhite]
  /\ Link({u})
  /\ \/ /\ meta[u] \in HasGC
        /\ called' = [called EXCEPT ![u] = @ + 1]
        /\ \E l \in Level : Push(l, u) /\ \A w \in UpVals : place[w] # <<running, l>>
     \/ meta[u] \notin HasGC /\ UNCHANGED <<called, stack>>
  /\ UNCHANGED <<tableVars, env, closureVars, callee, running, upvalVars, mt, listVars,
                 sweepstrgc, finalized, phaseVars, totalbytes, steps>>

Finalize ==
  /\ gcstate = "finalize" /\ full # "finish"
  /\ \E u \in tmudata : GCTM(u)

EndCycle ==
  /\ gcstate = "finalize" /\ full # "finish"
  /\ tmudata = {}
  /\ gcstate' = "pause"
  /\ full' = "no"
  /\ UNCHANGED <<heapVars, marked, listVars, sweepVars, udataVars, currentwhite, closing,
                 totalbytes, steps>>

(* luaC_fullgc: a cycle that has not come to sweeping is given up, and all *)
(* objects are swept (made white); another is finished; then a whole one.  *)
FullGC ==
  /\ Operation
  /\ full' = "finish"
  /\ IF gcstate \in {"pause", "propagate"}
     THEN /\ gcstate' = "sweepstring" /\ sweepstrgc' = 0 /\ sweepgc' = Root
          /\ gray' = {} /\ grayagain' = {} /\ weak' = {}
     ELSE UNCHANGED <<gcstate, sweepVars, listVars>>
  /\ UNCHANGED <<heapVars, marked, udataVars, currentwhite, closing, totalbytes>>

--------------------------------------------------------------------------------
(* lua_close: the main thread's upvalues are closed, all userdata are      *)
(* separated, whatever their colour, and then finalized; an error in a     *)
(* finalizer starts the loop again.  Then everything is freed.             *)
LuaClose ==
  /\ Operation /\ closing = "no"
  /\ closing' = "finalizing"
  /\ running' = mainthread
  /\ Close(OpenFrom(mainthread, 0))
  /\ stack' = [stack EXCEPT ![mainthread] = [m \in Level |-> Nil]]
  /\ callee' = [callee EXCEPT ![mainthread] = Nil]
  /\ separateudata(TRUE)
  /\ UNCHANGED <<tableVars, env, closureVars, mt, grayagain, weak, sweepstrgc,
                 currentwhite, gcstate, full>>

CallGCTM ==
  /\ closing = "finalizing" /\ ScriptsRun
  /\ \E u \in tmudata : GCTM(u)

FreeAll ==
  /\ closing = "finalizing" /\ ScriptsRun
  /\ tmudata = {}
  /\ closing' = "closed"
  /\ marked' = [o \in Obj |-> IF o = mainthread THEN marked[o] ELSE "free"]
  /\ totalbytes' = totalbytes - Cardinality({o \in Obj \ {mainthread} : Exists(o)})
  /\ place' = [u \in UpVals |-> Closed]
  /\ UNCHANGED <<tableVars, env, closureVars, threadVars, value, mt, listVars, sweepVars, udataVars, currentwhite, gcstate, full, steps>>

(* Every reference an object holds, also the weak ones... *)
Refs(o) ==
  CASE o \in Tables -> {meta[o]} \cup {val[o][n] : n \in Node}
                          \cup {key[o][n] : n \in {m \in Node : Entry(o, m)}}
    [] o \in Closures \cup Protos \cup Threads -> Traversed(o)
    [] OTHER -> With(o)

(* ... and what the roots and a set of objects lead to by them.            *)
Closure[S \in SUBSET Obj] ==
  LET more == S \cup ((UNION {Refs(o) : o \in S}) \cap Obj)
  IN IF more = S THEN S ELSE Closure[more]
Reachable == Closure[(Roots \cup {running} \cup tmudata) \cap Obj]

(* What a cycle is to free: a string that is fixed never is. *)
Unreachable == {o \in Obj : Exists(o) /\ o \notin Reachable \cup Fixed}

(* The ghost: an object is doomed until it is freed or found again.        *)
Doom == doomed' = IF gcstate # "propagate" /\ gcstate' = "propagate"
                  THEN Unreachable
                  ELSE IF doomed = {} THEN {} ELSE doomed \cap Unreachable'

(* A step of the collector, or an operation of a script. *)
Collect(A) == closing = "no" /\ A /\ Doom
Operate(A) == A /\ Doom

Collector ==
  \/ Collect(MarkRoot)
  \/ \E o \in gray : Collect(PropagateMark(o))
  \/ Collect(Atomic) \/ Collect(TraverseWeak) \/ Collect(TraverseAgain)
  \/ Collect(Preserve) \/ Collect(AtomicEnd)
  \/ Collect(SweepString) \/ Collect(SweepStep) \/ Collect(Finalize) \/ Collect(EndCycle)

Create(l) ==
  \/ \E t \in Tables : Operate(NewTable(t, l))
  \/ \E u \in Userdata : Operate(NewUserdata(u, l))
  \/ \E th \in Threads : Operate(NewThread(th, l))
  \/ \E s \in Strings : Operate(Intern(s, l))
  \/ \E c \in Methods : Operate(PushMethod(c, l))
  \/ \E file \in Files : Operate(Load(file.c, file.p, file.inner, file.k, l))
  \/ \E f \in Closures, c \in Closures \ Methods,
        u \in UpVals \cup {Nil} : Operate(NewClosure(f, c, u, l))

Change ==
  \/ \E t \in Tables, n \in Node : \E kk \in OnStack \cup {Number}, v \in Loadable :
        Operate(SetTable(t, n, kk, v))
  \/ \E m \in Tables \cup {Nil} : \/ Operate(SetStringMetatable(m))
                                 \/ \E o \in Tables \cup Userdata : Operate(SetMetatable(o, m))
  \/ \E o \in Closures \cup Userdata \cup Threads, t \in Tables : Operate(SetEnv(o, t))
  \/ \E c \in Closures, v \in Loadable : Operate(SetUpVal(c, v))
  \/ \E th \in Threads : Operate(Resume(th)) \/ Operate(Yield(th))

Script ==
  \/ \E l \in Level : \/ Create(l)
                      \/ Operate(Return(l))
                      \/ \E v \in Loadable : Operate(Move(l, v))
  \/ Change

Next ==
  \/ Collector \/ Script
  \/ Operate(FullGC) \/ Operate(LuaClose) \/ Operate(CallGCTM) \/ Operate(FreeAll)

(* What the run begins with: a heap that scripts have built since          *)
(* lua_newstate, before the first collection.                              *)
Init ==
  /\ currentwhite \in Whites
  /\ \E h \in Heaps :
       /\ marked = [o \in Obj |-> IF o \in h.exists THEN currentwhite ELSE "free"]
       /\ meta = h.meta /\ key = h.key /\ val = h.val
       /\ env = h.env /\ proto = h.proto /\ upval = h.upval
       /\ k = h.k /\ inner = h.inner
       /\ stack = h.stack /\ place = h.place /\ value = h.value
       /\ totalbytes = Cardinality(h.exists) + Cardinality(h.exists \cap Methods)
  /\ callee = [th \in Threads |-> Nil]
  /\ running = mainthread
  /\ mt = Nil
  /\ gcstate = "pause"
  /\ gray = {} /\ grayagain = {} /\ weak = {}
  /\ sweepstrgc = 0 /\ sweepgc = {}
  /\ tmudata = {} /\ finalized = {}
  /\ called = [u \in Userdata |-> 0]
  /\ full = "no" /\ closing = "no"
  /\ doomed = {}
  /\ steps = 0

Spec == Init /\ [][Next]_vars

--------------------------------------------------------------------------------
(* Every field has its kind, lists hold what they are for, and what does   *)
(* not exist has no place on a stack.                                      *)
TypeOK ==
  /\ meta \in [Tables \cup Userdata -> Tables \cup {Nil}]
  /\ key \in [Tables -> [Node -> Value \cup {DeadKey}]]
  /\ val \in [Tables -> [Node -> Value]]
  /\ env \in [Closures \cup Userdata \cup Threads -> Tables \cup {Nil}]
  /\ proto \in [Closures -> Protos \cup {Nil}]
  /\ upval \in [Closures -> UpVals \cup {Nil}]
  /\ k \in [Protos -> Strings \cup {Nil}] /\ inner \in [Protos -> Protos \cup {Nil}]
  /\ stack \in [Threads -> [Level -> Value]]
  /\ callee \in [Threads -> Threads \cup {Nil}]
  /\ place \in [UpVals -> (Threads \X Level) \cup {Closed}]
  /\ value \in [UpVals -> Value]
  /\ mt \in Tables \cup {Nil} /\ running \in Threads
  /\ marked \in [Obj -> Whites \cup {"gray", "black", "free"}]
  /\ currentwhite \in Whites
  /\ gcstate \in {"pause", "propagate", "sweepstring", "sweep", "finalize"} \cup atomicStates
  /\ gray \subseteq Tables \cup Closures \cup Protos \cup Threads
  /\ grayagain \subseteq Tables \cup Threads /\ weak \subseteq Tables
  /\ sweepstrgc \in Nat /\ sweepgc \subseteq Obj \ Strings
  /\ tmudata \subseteq finalized /\ finalized \subseteq Userdata
  /\ full \in {"no", "finish", "collect"}
  /\ closing \in {"no", "finalizing", "closed"}
  /\ called \in [Userdata -> Nat]
  /\ doomed \subseteq Obj
  /\ totalbytes \in Int
  /\ steps \in 0 .. MaxSteps
  /\ \A u \in UpVals : IsOpen(u) => Exists(u) /\ Exists(place[u][1])

Alive(o) == Exists(o) /\ ~IsGarbage(o)

(* No dangling reference: what the roots and the objects that are alive    *)
(* refer to exists and is not about to be freed, at every point of a       *)
(* collection and whatever scripts do in between: barriers, weak tables,   *)
(* open upvalues, strings and upvalues found dead, coroutines that were    *)
(* dropped while they ran, userdata waiting for their finalizers.          *)
HoldsAlive ==
  closing # "closed" =>
    /\ \A o \in (Roots \cup {running} \cup tmudata) \ {Nil} : Alive(o)
    /\ \A o \in Obj : Alive(o) => \A r \in Refs(o) \cap Obj : Alive(r)

Marks == closing = "no" /\ gcstate \in {"propagate"} \cup atomicStates

(* The field gclist links all of the collector's lists: while it marks, an *)
(* object waits in one of them at most, and it is gray.                    *)
OneList ==
  Marks =>
    /\ gray \cap grayagain = {} /\ gray \cap weak = {} /\ grayagain \cap weak = {}
    /\ \A o \in gray \cup grayagain \cup weak : marked[o] = "gray"

(* A finalizer runs at most once for a userdata, also when it is revived,  *)
(* dropped again, in a full collection, or when the state is closed...     *)
FinalizedOnce == \A u \in Userdata : called[u] <= 1

(* ... and before the userdata is freed.                                   *)
FinalizedFirst ==
  [][\A u \in Userdata : (Exists(u) /\ ~Exists(u)' /\ closing = "no")
       => u \in finalized \ tmudata]_vars

(* What nothing referred to when a cycle began is freed when it has swept  *)
(* all, unless it was found again: as a string or an open upvalue, or by   *)
(* way of a finalizer.                                                     *)
FreedInCycle ==
  (gcstate = "finalize" /\ full # "finish" /\ closing = "no") => doomed = {}

(* lstate.c:114, lua_assert(g->totalbytes == sizeof(LG)): lua_close takes  *)
(* all memory back, the main thread's remains.                             *)
AllFreed == closing = "closed" => totalbytes = 1
================================================================================
