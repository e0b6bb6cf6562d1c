----------------------------- MODULE Script_proofs -----------------------------
(***************************************************************************)
(* Proofs about Script.tla, for any number of threads, files and arguments *)
(* and scripts that nest to any depth: a thread's callbacks are those of   *)
(* the script it loaded, and its stack stays balanced but for the failures *)
(* of loads with a namespace.                                              *)
(***************************************************************************)
EXTENDS Script, SequenceTheorems, TLAPS

Frames == [thread : Threads, op : Ops, env : Environments \cup {None},
           pushed : 0 .. MaxArgs]

Typed == /\ stack \in [Threads -> Seq(Int)]
         /\ callback \in [Environments -> [thread : Threads, op : Ops] \cup {None}]
         /\ calls \in Seq(Frames)
         /\ under \in [Threads -> Nat] /\ failed \in [Threads -> Nat]

(* What a load with a namespace that fails takes off too much is all that  *)
(* a stack ever loses.                                                     *)
Fallen == \A t \in Threads : under[t] = failed[t]

(* A thread runs one script at a time. *)
OnceEach == \A j, k \in DOMAIN calls : calls[j].thread = calls[k].thread => j = k

(* A script runs in the environment of the thread that loads it, or in     *)
(* that of its namespace.                                                  *)
OwnEnvironment == \A k \in DOMAIN calls :
                    /\ calls[k].op = "load" => calls[k].env = calls[k].thread
                    /\ calls[k].op = "namespace" => calls[k].env = namespace

IInv == Typed /\ OnceEach /\ OwnEnvironment /\ OwnCallbacks /\ Balanced /\ Fallen

--------------------------------------------------------------------------------
(* Popping what was pushed. *)
LEMMA PopPush ==
  ASSUME NEW S, NEW s \in Seq(S), NEW v \in S
  PROVE  Pop(Push(s, v), 1) = s
<1>1. /\ Append(s, v) \in Seq(S) /\ Len(Append(s, v)) = Len(s) + 1
      /\ \A k \in 1 .. Len(s) : Append(s, v)[k] = s[k]
  OBVIOUS
<1> DEFINE p == SubSeq(Append(s, v), 1, Len(s))
<1>2. /\ p \in Seq(S) /\ Len(p) = Len(s)
      /\ \A k \in 1 .. Len(s) : p[k] = Append(s, v)[k]
  BY <1>1, SubSeqProperties
<1>3. Pop(Push(s, v), 1) = p
  BY <1>1 DEF Pop, Push
<1> HIDE DEF p
<1> QED
  BY <1>1, <1>2, <1>3, SeqEqual

(* Popping everything. *)
LEMMA PopAll ==
  ASSUME NEW S, NEW s \in Seq(S)
  PROVE  Pop(s, Len(s)) = <<>>
BY DEF Pop

(* The arguments of a call. *)
LEMMA ArgumentsType ==
  ASSUME NEW n \in Nat
  PROVE  /\ Arguments(n) \in Seq(Int) /\ Len(Arguments(n)) = n
         /\ <<>> \o Arguments(n) = Arguments(n)
<1>1. Arguments(n) \in [1 .. n -> Int]
  BY DEF Arguments
<1>2. Arguments(n) \in Seq(Int)
  BY <1>1
<1>3. Len(Arguments(n)) = n
  BY <1>1
<1> QED
  BY <1>2, <1>3, ConcatEmptySeq

(* A namespace's function and environment are taken off: with the name     *)
(* given, and with an error.                                               *)
LEMMA NamespaceStack ==
  /\ <<>> \o <<Function, Environment>> = <<Function, Environment>>
  /\ Pop(Replace(<<Function, Environment>>, 2), 1) = <<>>
  /\ Pop(Replace(Push(<<Function, Environment>>, Error), 3), 2) = <<>>
<1> USE DEF Function, Environment, Error
<1>1. <<>> \o <<0, -1>> = <<0, -1>>
  OBVIOUS
<1>2. Pop(Replace(<<0, -1>>, 2), 1) = <<>>
  BY DEF Pop, Replace
<1>3. Pop(Replace(Push(<<0, -1>>, -2), 3), 2) = <<>>
  BY DEF Pop, Replace, Push
<1> QED
  BY <1>1, <1>2, <1>3

--------------------------------------------------------------------------------
LEMMA InitIInv == Init => IInv
<1> SUFFICES ASSUME Init PROVE IInv
  OBVIOUS
<1> USE ScriptAssumption DEF Init
<1>1. Typed
  BY DEF Typed
<1>2. OnceEach /\ OwnEnvironment /\ OwnCallbacks
  BY DEF OnceEach, OwnEnvironment, OwnCallbacks, Environments
<1>3. Balanced
  <2>1. \A t \in Threads : stack[t] = <<>>
    OBVIOUS
  <2>2. \A k \in DOMAIN calls : FALSE
    OBVIOUS
  <2>3. \A t \in Threads : lua_gettop(t) = Len(stack[t]) - failed[t]
    BY DEF lua_gettop
  <2> QED
    BY <2>1, <2>2, <2>3 DEF Balanced
<1>4. Fallen
  BY DEF Fallen
<1> QED
  BY <1>1, <1>2, <1>3, <1>4 DEF IInv

--------------------------------------------------------------------------------
(* A script that starts to run on a thread on which none runs. *)
LEMMA Started ==
  ASSUME IInv, NEW c \in Frames, ~Running(c.thread), calls' = Append(calls, c),
         c.op = "load" => c.env = c.thread,
         c.op = "namespace" => c.env = namespace,
         stack' \in [Threads -> Seq(Int)],
         \A t \in Threads : stack'[t] = IF t = c.thread THEN Below(c) ELSE stack[t],
         UNCHANGED <<callback, under, failed>>
  PROVE  IInv'
<1>1. calls \in Seq(Frames) /\ Len(calls) \in Nat /\ DOMAIN calls = 1 .. Len(calls)
  BY DEF IInv, Typed
<1>2. /\ calls' \in Seq(Frames)
      /\ DOMAIN calls' = 1 .. Len(calls) + 1
      /\ \A k \in 1 .. Len(calls) : calls'[k] = calls[k]
      /\ calls'[Len(calls) + 1] = c
  BY <1>1
<1>3. \A k \in 1 .. Len(calls) + 1 : k \in 1 .. Len(calls) \/ k = Len(calls) + 1
  BY <1>1
<1>4. \A k \in 1 .. Len(calls) : calls[k].thread # c.thread
  BY <1>1 DEF Running
<1>5. Typed'
  BY <1>2 DEF IInv, Typed
<1>6. OnceEach'
  BY <1>1, <1>2, <1>3, <1>4 DEF IInv, OnceEach
<1>7. OwnEnvironment'
  BY <1>1, <1>2, <1>3 DEF IInv, OwnEnvironment
<1>8. OwnCallbacks'
  BY DEF IInv, OwnCallbacks
<1>10. Fallen'
  BY DEF IInv, Fallen
<1>9. Balanced'
  <2> SUFFICES ASSUME NEW t \in Threads
               PROVE  /\ ~Running(t)' => stack'[t] = <<>>
                      /\ \A k \in DOMAIN calls' :
                           calls'[k].thread = t => stack'[t] = Below(calls'[k])
    BY <1>10 DEF Fallen, lua_gettop, Balanced, Below
  <2>1. CASE t = c.thread
    <3>1. Running(t)'
      <4>1. Len(calls) + 1 \in DOMAIN calls' /\ calls'[Len(calls) + 1].thread = t
        BY <1>1, <1>2, <2>1
      <4> QED
        BY <4>1 DEF Running
    <3>2. \A k \in DOMAIN calls' : calls'[k].thread = t => calls'[k] = c
      BY <1>1, <1>2, <1>3, <1>4, <2>1
    <3> QED
      BY <2>1, <3>1, <3>2
  <2>2. CASE t # c.thread
    <3>1. ~Running(t)' => ~Running(t)
      BY <1>1, <1>2 DEF Running
    <3>2. \A k \in DOMAIN calls' :
            calls'[k].thread = t => k \in DOMAIN calls /\ calls'[k] = calls[k]
      BY <1>1, <1>2, <1>3, <2>2
    <3> QED
      BY <2>2, <3>1, <3>2 DEF IInv, Balanced
  <2> QED
    BY <2>1, <2>2
<1> QED
  BY <1>5, <1>6, <1>7, <1>8, <1>9, <1>10 DEF IInv

(* The innermost script ends, and its thread's stack is empty. *)
LEMMA Ended ==
  ASSUME IInv, calls # <<>>, calls' = Pop(calls, 1),
         stack' \in [Threads -> Seq(Int)],
         \A t \in Threads : stack'[t] = IF t = Top.thread THEN <<>> ELSE stack[t],
         under' \in [Threads -> Nat], failed' \in [Threads -> Nat], Fallen',
         UNCHANGED callback
  PROVE  IInv'
<1>1. /\ calls \in Seq(Frames) /\ Len(calls) \in Nat /\ Len(calls) > 0
      /\ DOMAIN calls = 1 .. Len(calls)
  BY EmptySeq DEF IInv, Typed
<1>2. /\ calls' \in Seq(Frames)
      /\ DOMAIN calls' = 1 .. Len(calls) - 1
      /\ \A k \in 1 .. Len(calls) - 1 : calls'[k] = calls[k]
  BY <1>1 DEF Pop
<1>0. PICK n \in Nat : n = Len(calls) /\ n > 0
  BY <1>1
<1>3. \A k \in 1 .. Len(calls) : k \in 1 .. Len(calls) - 1 \/ k = Len(calls)
  <2>1. \A k \in 1 .. n : k \in 1 .. n - 1 \/ k = n
    OBVIOUS
  <2> QED
    BY ONLY <1>0, <2>1
<1>4. \A k \in 1 .. Len(calls) - 1 : /\ k \in 1 .. Len(calls) /\ k # Len(calls)
                                     /\ Len(calls) \in 1 .. Len(calls)
  <2>1. \A k \in 1 .. n - 1 : k \in 1 .. n /\ k # n /\ n \in 1 .. n
    OBVIOUS
  <2> QED
    BY ONLY <1>0, <2>1
<1>5. Typed'
  BY <1>2 DEF IInv, Typed
<1>6. OnceEach'
  <2> SUFFICES ASSUME NEW j \in 1 .. Len(calls) - 1, NEW k \in 1 .. Len(calls) - 1,
                      calls'[j].thread = calls'[k].thread
               PROVE  j = k
    BY <1>2 DEF OnceEach
  <2>1. j \in DOMAIN calls /\ k \in DOMAIN calls /\ calls[j].thread = calls[k].thread
    BY <1>1, <1>2, <1>4
  <2> QED
    BY <2>1 DEF IInv, OnceEach
<1>7. OwnEnvironment'
  BY <1>1, <1>2, <1>4 DEF IInv, OwnEnvironment
<1>8. OwnCallbacks'
  BY DEF IInv, OwnCallbacks
<1>9. Balanced'
  <2> SUFFICES ASSUME NEW t \in Threads
               PROVE  /\ ~Running(t)' => stack'[t] = <<>>
                      /\ \A k \in DOMAIN calls' :
                           calls'[k].thread = t => stack'[t] = Below(calls'[k])
    BY DEF Fallen, lua_gettop, Balanced, Below
  <2>1. CASE t = Top.thread
    <3>1. \A k \in DOMAIN calls' : calls'[k].thread # t
      BY <1>1, <1>2, <1>4, <2>1 DEF IInv, OnceEach, Top
    <3> QED
      BY <2>1, <3>1
  <2>2. CASE t # Top.thread
    <3>1. ~Running(t)' => ~Running(t)
      BY <1>1, <1>2, <1>3, <2>2 DEF Running, Top
    <3>2. \A k \in DOMAIN calls' :
            calls'[k].thread = t => k \in DOMAIN calls /\ calls'[k] = calls[k]
      BY <1>1, <1>2, <1>4
    <3> QED
      BY <2>2, <3>1, <3>2 DEF IInv, Balanced
  <2> QED
    BY <2>1, <2>2
<1> QED
  BY <1>5, <1>6, <1>7, <1>8, <1>9 DEF IInv

(* Steps that leave the scripts that run, their callbacks and stacks alone. *)
LEMMA StutterIInv ==
  IInv /\ UNCHANGED <<callback, stack, under, calls, failed>> => IInv'
<1> SUFFICES ASSUME IInv, UNCHANGED <<callback, stack, under, calls, failed>>
             PROVE  IInv'
  OBVIOUS
<1>1. Typed' /\ OnceEach' /\ OwnEnvironment' /\ OwnCallbacks'
  BY DEF IInv, Typed, OnceEach, OwnEnvironment, OwnCallbacks
<1>2. Balanced'
  BY Zenon DEF IInv, Balanced, Running, Below, lua_gettop
<1>3. Fallen'
  BY DEF IInv, Fallen
<1> QED
  BY <1>1, <1>2, <1>3 DEF IInv

(* The stack of a thread on which nothing runs is empty. *)
LEMMA IdleStack ==
  ASSUME IInv, NEW t \in Threads, Idle(t)
  PROVE  stack[t] = <<>> /\ ~Running(t)
BY DEF IInv, Balanced, Idle

(* What is left on the stack below the script that runs. *)
LEMMA BelowCases ==
  ASSUME NEW c
  PROVE  /\ c.op = "load" => Below(c) = <<>>
         /\ c.op = "namespace" => Below(c) = <<Function, Environment>>
         /\ c.op = "call" => Below(c) = Arguments(c.pushed)
<1>1. c.op = "load" => Below(c) = <<>>
  BY Zenon DEF Below
<1>2. c.op = "namespace" => Below(c) = <<Function, Environment>>
  BY Zenon DEF Below
<1>3. c.op = "call" => Below(c) = Arguments(c.pushed)
  BY Zenon DEF Below
<1> QED
  BY <1>1, <1>2, <1>3

(* The innermost script, and the stack of its thread. *)
LEMMA Innermost ==
  ASSUME IInv, calls # <<>>
  PROVE  Top \in Frames /\ TopStack = Below(Top) /\ TopStack \in Seq(Int)
<1>1. calls \in Seq(Frames) /\ Len(calls) \in DOMAIN calls
  BY EmptySeq DEF IInv, Typed
<1>2. Top \in Frames
  BY <1>1 DEF Top
<1>3. Top.thread \in Threads
  BY <1>2 DEF Frames
<1> QED
  BY <1>1, <1>2, <1>3 DEF IInv, Balanced, Top, TopStack, Typed

LEMMA IdleSteps ==
  ASSUME IInv, NEW t \in Threads, NEW f, NEW n \in 0 .. MaxArgs,
         precompile(f) \/ CompileFails(t, f) \/ CallNothing(t, n)
  PROVE  IInv'
<1>1. stack \in [Threads -> Seq(Int)]
  BY DEF IInv, Typed
<1>2. CASE precompile(f)
  <2>1. Pop(Push(stack[main], Function), 1) = stack[main]
    BY <1>1, ScriptAssumption, PopPush DEF Function
  <2>2. stack' = stack
    BY <1>1, <1>2, <2>1, ScriptAssumption DEF precompile
  <2> QED
    BY <1>2, <2>2, StutterIInv DEF precompile
<1>3. CASE CompileFails(t, f)
  <2>1. Push(stack[t], Error) # <<>> /\ Pop(Push(stack[t], Error), 1) = stack[t]
    <3>1. Pop(Push(stack[t], Error), 1) = stack[t]
      BY <1>1, PopPush DEF Error
    <3>2. Push(stack[t], Error) # <<>>
      BY <1>1, AppendProperties DEF Push, Error
    <3> QED
      BY <3>1, <3>2
  <2>2. stack' = stack /\ under' = under
    <3>1. under \in [Threads -> Nat]
      BY DEF IInv, Typed
    <3> QED
      BY <1>1, <1>3, <2>1, <3>1 DEF CompileFails, logError
  <2> QED
    BY <1>3, <2>2, StutterIInv DEF CompileFails
<1>4. CASE CallNothing(t, n)
  <2>1. stack[t] = <<>>
    BY <1>4, IdleStack DEF CallNothing
  <2>2. /\ n \in Nat /\ Arguments(n) \in Seq(Int) /\ Len(Arguments(n)) = n
        /\ <<>> \o Arguments(n) = Arguments(n)
    BY ScriptAssumption, ArgumentsType
  <2>3. Pop(Push(Arguments(n), Nil), 1) = Arguments(n)
    BY <2>2, PopPush DEF Nil
  <2>4. Pop(Arguments(n), n) = <<>>
    BY <2>2, PopAll
  <2>5. stack' = stack
    BY <1>1, <1>4, <2>1, <2>2, <2>3, <2>4 DEF CallNothing
  <2> QED
    BY <1>4, <2>5, StutterIInv DEF CallNothing
<1> QED
  BY <1>2, <1>3, <1>4

LEMMA LoadIInv ==
  ASSUME IInv, NEW t \in Threads, NEW f \in Files, loadScript(t, f)
  PROVE  IInv'
<1> DEFINE c == [thread |-> t, op |-> "load", env |-> t, pushed |-> 0]
<1>1. c \in Frames
  BY ScriptAssumption DEF Frames, Ops, Environments
<1>2. calls' = Append(calls, c) /\ UNCHANGED <<stack, callback, under, failed>>
  BY DEF loadScript, Call, Clone
<1>3. stack[t] = <<>> /\ ~Running(t)
  BY IdleStack DEF loadScript
<1>4. Below(c) = <<>>
  BY BelowCases
<1>5. stack' \in [Threads -> Seq(Int)]
  BY <1>2 DEF IInv, Typed
<1>6. \A u \in Threads : stack'[u] = IF u = c.thread THEN Below(c) ELSE stack[u]
  BY <1>2, <1>3, <1>4
<1>7. /\ c.thread = t
      /\ c.op = "load" => c.env = c.thread
      /\ c.op = "namespace" => c.env = namespace
  OBVIOUS
<1> HIDE DEF c
<1> QED
  BY <1>1, <1>2, <1>3, <1>5, <1>6, <1>7, Started

LEMMA NamespaceIInv ==
  ASSUME IInv, NEW t \in Threads, NEW f \in Files, loadScriptWithNamespace(t, f)
  PROVE  IInv'
<1> DEFINE c == [thread |-> t, op |-> "namespace", env |-> namespace, pushed |-> 0]
<1>1. c \in Frames
  BY ScriptAssumption DEF Frames, Ops, Environments
<1>2. /\ calls' = Append(calls, c) /\ UNCHANGED <<callback, under, failed>>
      /\ stack' = [stack EXCEPT ![t] = @ \o <<Function, Environment>>]
  BY DEF loadScriptWithNamespace, Call
<1>3. stack[t] = <<>> /\ ~Running(t)
  BY IdleStack DEF loadScriptWithNamespace
<1>4. Below(c) = <<Function, Environment>>
  BY BelowCases
<1>5. /\ <<Function, Environment>> \in Seq(Int)
      /\ <<>> \o <<Function, Environment>> = <<Function, Environment>>
  BY NamespaceStack DEF Function, Environment
<1>6. stack' \in [Threads -> Seq(Int)]
  BY <1>2, <1>3, <1>5 DEF IInv, Typed
<1>7. \A u \in Threads : stack'[u] = IF u = c.thread THEN Below(c) ELSE stack[u]
  BY <1>2, <1>3, <1>4, <1>5 DEF IInv, Typed
<1>8. /\ c.thread = t
      /\ c.op = "load" => c.env = c.thread
      /\ c.op = "namespace" => c.env = namespace
  OBVIOUS
<1> HIDE DEF c
<1> QED
  BY <1>1, <1>2, <1>3, <1>6, <1>7, <1>8, Started

LEMMA CallIInv ==
  ASSUME IInv, NEW t \in Threads, NEW n \in 0 .. MaxArgs, call(t, n)
  PROVE  IInv'
<1> DEFINE c == [thread |-> t, op |-> "call", env |-> None, pushed |-> n]
<1>1. c \in Frames
  BY DEF Frames, Ops
<1>2. /\ calls' = Append(calls, c) /\ UNCHANGED <<callback, under, failed>>
      /\ stack' = [stack EXCEPT ![t] = @ \o Arguments(n)]
  BY DEF call, Call
<1>3. stack[t] = <<>> /\ ~Running(t)
  BY IdleStack DEF call
<1>4. Below(c) = Arguments(n)
  <2>1. c.op = "call" /\ c.pushed = n
    OBVIOUS
  <2> HIDE DEF c
  <2> QED
    BY <2>1, BelowCases
<1>5. Arguments(n) \in Seq(Int) /\ <<>> \o Arguments(n) = Arguments(n)
  BY ScriptAssumption, ArgumentsType
<1>6. stack' \in [Threads -> Seq(Int)]
  BY <1>2, <1>3, <1>5 DEF IInv, Typed
<1>8. /\ c.thread = t
      /\ c.op = "load" => c.env = c.thread
      /\ c.op = "namespace" => c.env = namespace
  OBVIOUS
<1> HIDE DEF c
<1>7. \A u \in Threads : stack'[u] = IF u = c.thread THEN Below(c) ELSE stack[u]
  BY <1>2, <1>3, <1>4, <1>5, <1>8 DEF IInv, Typed
<1> QED
  BY <1>1, <1>2, <1>3, <1>6, <1>7, <1>8, Started

(* A script defines callbacks in its own environment only. *)
LEMMA DefineIInv == IInv /\ Define => IInv'
<1> SUFFICES ASSUME IInv, Define PROVE IInv'
  OBVIOUS
<1> DEFINE d == [thread |-> Top.thread, op |-> Top.op]
<1>1. /\ calls # <<>> /\ Top.op # "call"
      /\ callback' = [callback EXCEPT ![Top.env] = d]
      /\ UNCHANGED <<stack, under, calls, failed>>
  BY DEF Define
<1>2. Top \in Frames /\ Len(calls) \in DOMAIN calls
  <2>1. Len(calls) \in DOMAIN calls
    BY <1>1, EmptySeq DEF IInv, Typed
  <2> QED
    BY <1>1, <2>1, Innermost
<1>3. /\ Top.thread \in Threads /\ d \in [thread : Threads, op : Ops]
      /\ d.op = Top.op /\ Top.op \in {"load", "namespace"}
  BY <1>1, <1>2 DEF Frames, Ops
<1>4. /\ Top.op = "load" => Top.env = Top.thread
      /\ Top.op = "namespace" => Top.env = namespace
  BY <1>2 DEF IInv, OwnEnvironment, Top
<1>5. callback \in [Environments -> [thread : Threads, op : Ops] \cup {None}]
  BY DEF IInv, Typed
<1>6. \A e \in Environments : callback'[e] = IF e = Top.env THEN d ELSE callback[e]
  BY <1>1, <1>5
<1>7. Typed'
  <2>1. callback' \in [Environments -> [thread : Threads, op : Ops] \cup {None}]
    BY <1>1, <1>3, <1>5
  <2> QED
    BY <1>1, <2>1 DEF IInv, Typed
<1>8. OnceEach' /\ OwnEnvironment'
  BY <1>1 DEF IInv, OnceEach, OwnEnvironment
<1>9. OwnCallbacks'
  <2>1. CASE Top.op = "load"
    <3>1. Top.env = Top.thread /\ Top.env # namespace /\ d = [thread |-> Top.thread, op |-> "load"]
      BY <1>3, <1>4, <2>1, ScriptAssumption
    <3> QED
      BY <1>3, <1>6, <3>1 DEF IInv, OwnCallbacks, Environments
  <2>2. CASE Top.op = "namespace"
    <3>1. Top.env = namespace
      BY <1>4, <2>2
    <3> QED
      BY <1>3, <1>6, <2>2, <3>1, ScriptAssumption DEF IInv, OwnCallbacks, Environments
  <2> QED
    BY <1>3, <2>1, <2>2
<1>10. Balanced'
  BY <1>1, Zenon DEF IInv, Balanced, Running, Below, lua_gettop
<1>11. Fallen'
  BY <1>1 DEF IInv, Fallen
<1> QED
  BY <1>7, <1>8, <1>9, <1>10, <1>11 DEF IInv

(* However a script ends, no value is left on its thread's stack; only a   *)
(* load with a namespace that fails takes off one too many.                *)
LEMMA EndIInv ==
  ASSUME IInv, Return \/ LoadFails \/ NamespaceFails \/ CallFails
  PROVE  IInv'
<1> DEFINE t == Top.thread
<1>1. calls # <<>> /\ calls' = Pop(calls, 1) /\ UNCHANGED callback
  BY DEF Return, LoadFails, NamespaceFails, CallFails
<1>2. /\ Top \in Frames /\ TopStack = Below(Top) /\ TopStack \in Seq(Int)
      /\ t \in Threads /\ Top.op \in Ops /\ Top.pushed \in Nat
  <2>1. Top \in Frames /\ TopStack = Below(Top) /\ TopStack \in Seq(Int)
    BY <1>1, Innermost
  <2> QED
    BY <2>1, ScriptAssumption DEF Frames
<1>3. stack \in [Threads -> Seq(Int)]
  BY DEF IInv, Typed
<1>4. /\ Top.op = "load" => TopStack = <<>>
      /\ Top.op = "namespace" => TopStack = <<Function, Environment>>
      /\ Top.op = "call" => /\ TopStack = Arguments(Top.pushed)
                            /\ Pop(TopStack, Top.pushed) = <<>>
  <2>1. Arguments(Top.pushed) \in Seq(Int) /\ Len(Arguments(Top.pushed)) = Top.pushed
    BY <1>2, ArgumentsType
  <2>2. Pop(Arguments(Top.pushed), Top.pushed) = <<>>
    BY <2>1, PopAll
  <2> QED
    BY <1>2, <2>2, BelowCases
<1>5. Pop(Push(TopStack, Error), 1) = TopStack /\ Push(TopStack, Error) # <<>>
  BY <1>2, PopPush, AppendProperties DEF Push, Error
<1>6. stack' = [stack EXCEPT ![t] = <<>>]
  <2>1. CASE Return
    <3>1. CASE Top.op = "load"
      BY <1>3, <1>4, <2>1, <3>1, Zenon DEF Return, TopStack
    <3>2. CASE Top.op = "namespace"
      BY <1>3, <1>4, <2>1, <3>2, NamespaceStack, Zenon DEF Return, TopStack
    <3>3. CASE Top.op = "call"
      BY <1>3, <1>4, <2>1, <3>3, Zenon DEF Return, TopStack
    <3> QED
      BY <1>2, <3>1, <3>2, <3>3 DEF Ops
  <2>2. CASE LoadFails
    BY <1>4, <1>5, <2>2 DEF LoadFails, logError
  <2>3. CASE NamespaceFails
    <3>1. Pop(<<>>, 0) = <<>>
      BY DEF Pop
    <3> QED
      BY <1>4, <2>3, <3>1, NamespaceStack DEF NamespaceFails, logError
  <2>4. CASE CallFails
    BY <1>4, <1>5, <2>4 DEF CallFails, TopStack
  <2> QED
    BY <2>1, <2>2, <2>3, <2>4
<1>7. /\ stack' \in [Threads -> Seq(Int)]
      /\ \A u \in Threads : stack'[u] = IF u = Top.thread THEN <<>> ELSE stack[u]
  BY <1>2, <1>3, <1>6
<1>8. under' \in [Threads -> Nat] /\ failed' \in [Threads -> Nat] /\ Fallen'
  <2>1. under \in [Threads -> Nat] /\ failed \in [Threads -> Nat] /\ Fallen
    BY DEF IInv, Typed
  <2>2. CASE Return \/ CallFails
    BY <2>1, <2>2 DEF Return, CallFails, Fallen
  <2>3. CASE LoadFails
    <3>1. under' = under /\ failed' = failed
      BY <1>5, <2>1, <2>3 DEF LoadFails, logError
    <3> QED
      BY <2>1, <3>1 DEF Fallen
  <2>4. CASE NamespaceFails
    <3>1. /\ under' = [under EXCEPT ![t] = @ + 1]
          /\ failed' = [failed EXCEPT ![t] = @ + 1]
      BY <1>4, <2>4, NamespaceStack DEF NamespaceFails, logError
    <3> HIDE DEF t
    <3> QED
      BY <1>2, <2>1, <3>1 DEF Fallen
  <2> QED
    BY <2>2, <2>3, <2>4
<1> QED
  BY <1>1, <1>7, <1>8, Ended

--------------------------------------------------------------------------------
(* Every step preserves the invariant. *)
LEMMA StepIInv == IInv /\ [Next]_vars => IInv'
<1> SUFFICES ASSUME IInv, [Next]_vars PROVE IInv'
  OBVIOUS
<1>1. ASSUME NEW p \in Threads, NEW t \in Threads, newThread(p, t) PROVE IInv'
  BY <1>1, StutterIInv DEF newThread
<1>2. ASSUME NEW f \in Files, precompile(f) PROVE IInv'
  <2>1. main \in Threads /\ 0 \in 0 .. MaxArgs
    BY ScriptAssumption
  <2> QED
    BY <1>2, <2>1, IdleSteps
<1>3. ASSUME NEW t \in Threads, NEW f \in Files,
             CompileFails(t, f) \/ loadScript(t, f) \/ loadScriptWithNamespace(t, f)
      PROVE  IInv'
  <2>1. 0 \in 0 .. MaxArgs
    BY ScriptAssumption
  <2> QED
    BY <1>3, <2>1, IdleSteps, LoadIInv, NamespaceIInv
<1>4. ASSUME NEW t \in Threads, NEW n \in 0 .. MaxArgs, call(t, n) PROVE IInv'
  BY <1>4, CallIInv
<1>5. ASSUME NEW t \in Threads, NEW n \in 0 .. MaxArgs, CallNothing(t, n) PROVE IInv'
  BY <1>5, IdleSteps
<1>6. CASE Define
  BY <1>6, DefineIInv
<1>7. CASE Return \/ LoadFails \/ NamespaceFails \/ CallFails
  BY <1>7, EndIInv
<1>8. CASE UNCHANGED vars
  BY <1>8, StutterIInv DEF vars
<1> QED
  BY <1>1, <1>2, <1>3, <1>4, <1>5, <1>6, <1>7, <1>8 DEF Next

(* The inductive invariant holds always. *)
THEOREM Invariance == Spec => []IInv
BY InitIInv, StepIInv, PTL DEF Spec

(* A thread's callbacks are those of the script it loaded itself, although *)
(* threads share compiled functions (Script.compile clones them).          *)
THEOREM CallbacksAreOwn == Spec => []OwnCallbacks
BY Invariance, PTL DEF IInv

(* Loads and calls leave a thread's stack as they found it, however they   *)
(* nest and fail (the assertion at the end of Script.call), but for one    *)
(* value that each failing load with a namespace takes off too much.       *)
THEOREM StacksBalance == Spec => []Balanced
BY Invariance, PTL DEF IInv
================================================================================
