-------------------------------- MODULE Script --------------------------------
(***************************************************************************)
(* Script.m: the Lua threads of scenes, layers, actors and behaviors, the  *)
(* functions compiled from script files, and the stacks both are worked    *)
(* on.                                                                     *)
(*                                                                         *)
(* Every thread has an environment of its own that inherits from its       *)
(* parent's; a file is compiled once, kept in the registry, and cloned for *)
(* every later load.  While a script runs it may have the engine create,   *)
(* load or call other threads: "calls" holds the scripts that are running, *)
(* the innermost last.  What a script computes is left out, but for the    *)
(* callbacks (start, advance, collide...) it defines in its environment.   *)
(***************************************************************************)
EXTENDS Integers, Sequences, Functions

CONSTANTS Threads, main,      \* the threads; main is the engine's own
          Files,
          None, namespace,    \* "no environment", the fresh one of a namespace
          MaxArgs,            \* the most arguments of a call (1 in Actor.m)
          MaxDepth,           \* bounds how deep running scripts nest
          MaxUnder            \* bounds how often a load with a namespace fails

ASSUME ScriptAssumption ==
  /\ main \in Threads
  /\ None \notin Threads /\ namespace \notin Threads /\ namespace # None
  /\ MaxArgs \in Nat /\ MaxDepth \in Nat \ {0} /\ MaxUnder \in Nat

VARIABLES scope,      \* a thread's environments, its own first; <<>> before it is created
          compiled,   \* the environment of a file's function in the registry, or None
          callback,   \* who defined the callbacks of an environment, or None
          stack,      \* the values on the Lua stack of a thread, the top last
          under,      \* how far below the base of its thread that stack begins
          calls,      \* the scripts that are running, the innermost last
          failed      \* history: the loads with a namespace that failed on a thread

vars == <<scope, compiled, callback, stack, under, calls, failed>>

Environments == Threads \cup {namespace}

Init == /\ scope = [t \in Threads |-> IF t = main THEN <<main>> ELSE <<>>]
        /\ compiled = [f \in Files |-> None]
        /\ callback = [e \in Environments |-> None]
        /\ stack = [t \in Threads |-> <<>>]
        /\ under = [t \in Threads |-> 0]
        /\ calls = <<>>
        /\ failed = [t \in Threads |-> 0]

--------------------------------------------------------------------------------
(* The stack of a thread. *)

Push(s, v) == Append(s, v)

Pop(s, n) == SubSeq(s, 1, Len(s) - n)

(* The top is taken off and put n places below where it was. *)
Replace(s, n) == Pop([s EXCEPT ![Len(s) + 1 - n] = s[Len(s)]], 1)

(* Where the top of a thread's stack is, counted from its base: this falls *)
(* below 0 when more is taken off than was put on, for Lua does not check  *)
(* that.  What is pushed next lies there: the values on the stack are      *)
(* found from its top, so they are the same as they are above the base.    *)
lua_gettop(t) == Len(stack[t]) - under[t]

(* Takes the top of s, the stack of t, which should be an error message:   *)
(* where there is none, the stack begins one place further below the base. *)
logError(t, s) == /\ stack' = [stack EXCEPT ![t] = Pop(s, IF s = <<>> THEN 0 ELSE 1)]
                  /\ under' = [under EXCEPT ![t] = IF s = <<>> THEN @ + 1 ELSE @]

(* What stacks hold: arguments are numbered from 1, the rest has no identity. *)
Function == 0
Environment == -1
Error == -2
Nil == -3

--------------------------------------------------------------------------------
(* Threads and compiled functions. *)

Created(t) == scope[t] # <<>>

Running(t) == \E k \in DOMAIN calls : calls[k].thread = t

(* The engine works on one thread at a time, and never on one whose script *)
(* is waiting for it.                                                      *)
Idle(t) == Created(t) /\ ~Running(t)

(* Ready for one more script to run. *)
Shallow == Len(calls) < MaxDepth

(* A new thread, whose environment inherits from that of its parent. *)
newThread(p, t) ==
  /\ Created(p) /\ ~Created(t)
  /\ scope' = [scope EXCEPT ![t] = <<t>> \o scope[p]]
  /\ UNCHANGED <<compiled, callback, stack, under, calls, failed>>

(* Mutant: what is in the registry is used itself. *)
Registered(t, f) == IF compiled[f] = None THEN t ELSE compiled[f]

(* Mutant: a function just read is not used, only one in the registry. *)
InRegistry(t, f) == compiled[f]

(* The environment of the function that compiling a file for a thread      *)
(* gives: a clone of the function in the registry gets the thread's, just  *)
(* as a function read from the file does.                                  *)
Clone(t, f) == t

(* A file is compiled if it is not in the registry; the function stays     *)
(* there with the environment it is given.                                 *)
Compile(f, env) == compiled' = [compiled EXCEPT ![f] = IF @ = None THEN env ELSE @]

(* The file of a script cannot be read, or has a syntax error. *)
CompileFails(t, f) ==
  /\ Idle(t)
  /\ compiled[f] = None
  /\ logError(t, Push(stack[t], Error))
  /\ UNCHANGED <<scope, compiled, callback, calls, failed>>

(* Mutant of precompile: the function is left on the stack. *)
PrecompileAndLeave(f) ==
  /\ calls = <<>>
  /\ Compile(f, main)
  /\ stack' = [stack EXCEPT ![main] = Push(@, Function)]
  /\ UNCHANGED <<scope, callback, under, calls, failed>>

(* The engine, before it runs any script. *)
precompile(f) ==
  /\ calls = <<>>
  /\ Compile(f, main)
  /\ stack' = [stack EXCEPT ![main] = Pop(Push(@, Function), 1)]
  /\ UNCHANGED <<scope, callback, under, calls, failed>>

--------------------------------------------------------------------------------
(* Running scripts. *)

Call(t, op, env, n) ==
  calls' = Append(calls, [thread |-> t, op |-> op, env |-> env, pushed |-> n])

loadScript(t, f) ==
  /\ Idle(t) /\ Shallow
  /\ Compile(f, t)
  /\ Call(t, "load", Clone(t, f), 0)
  /\ UNCHANGED <<scope, callback, stack, under, failed>>

(* The function and its fresh environment stay on the stack. *)
loadScriptWithNamespace(t, f) ==
  /\ Idle(t) /\ Shallow
  /\ Compile(f, namespace)
  /\ stack' = [stack EXCEPT ![t] = @ \o <<Function, Environment>>]
  /\ Call(t, "namespace", namespace, 0)
  /\ UNCHANGED <<scope, callback, under, failed>>

(* The environment a callback is found in is the first that has one. *)
Found(t) == \E k \in DOMAIN scope[t] : callback[scope[t][k]] # None

(* The values the caller has pushed. *)
Arguments(n) == [k \in 1 .. n |-> k]

(* The engine has pushed n values, and calls a callback: the function and  *)
(* the copies of the arguments it gets lie above them until it returns.    *)
call(t, n) ==
  /\ Idle(t) /\ Shallow
  /\ Found(t)
  /\ stack' = [stack EXCEPT ![t] = @ \o Arguments(n)]
  /\ Call(t, "call", None, n)
  /\ UNCHANGED <<scope, compiled, callback, under, failed>>

(* There is no such callback: what was pushed is taken off again. *)
CallNothing(t, n) ==
  /\ Idle(t)
  /\ ~Found(t)
  /\ stack' = [stack EXCEPT ![t] = Pop(Pop(Push(@ \o Arguments(n), Nil), 1), n)]
  /\ UNCHANGED <<scope, compiled, callback, under, calls, failed>>

(* The innermost script that runs, and its thread's stack. *)
Top == calls[Len(calls)]
TopStack == stack[Top.thread]

(* A script that is loaded defines its callbacks. *)
Define ==
  /\ calls # <<>>
  /\ Top.op # "call"
  /\ callback' = [callback EXCEPT ![Top.env] = [thread |-> Top.thread, op |-> Top.op]]
  /\ UNCHANGED <<scope, compiled, stack, under, calls, failed>>

(* The innermost script is done.  A namespace's environment gets its name  *)
(* as a global of the thread, the arguments of a call are taken off.       *)
Return ==
  /\ calls # <<>>
  /\ stack' = [stack EXCEPT ![Top.thread] =
                 CASE Top.op = "load"      -> @
                   [] Top.op = "namespace" -> Pop(Replace(@, 2), 1)
                   [] Top.op = "call"      -> Pop(@, Top.pushed)]
  /\ calls' = Pop(calls, 1)
  /\ UNCHANGED <<scope, compiled, callback, under, failed>>

LoadFails ==
  /\ calls # <<>> /\ Top.op = "load"
  /\ logError(Top.thread, Push(TopStack, Error))
  /\ calls' = Pop(calls, 1)
  /\ UNCHANGED <<scope, compiled, callback, failed>>

(* The message replaces the function and is then taken off together with   *)
(* the environment, before logError takes off what lies below them.  Lua   *)
(* keeps one place below the base of a thread; where the stack goes on     *)
(* below that, in memory that is not its own, is counted only.  Engine.m   *)
(* goes on to load the next script on the same thread (line 259), so that  *)
(* this happens as often as there are scripts that fail.                   *)
NamespaceFails ==
  /\ calls # <<>> /\ Top.op = "namespace"
  /\ FoldFunction(+, 0, failed) < MaxUnder
  /\ logError(Top.thread, Pop(Replace(Push(TopStack, Error), 3), 2))
  /\ calls' = Pop(calls, 1)
  /\ failed' = [failed EXCEPT ![Top.thread] = @ + 1]
  /\ UNCHANGED <<scope, compiled, callback>>

(* Mutant of CallFails: the arguments stay. *)
CallFailsAndLeaves ==
  /\ calls # <<>> /\ Top.op = "call"
  /\ stack' = [stack EXCEPT ![Top.thread] = Pop(Push(@, Error), 1)]
  /\ calls' = Pop(calls, 1)
  /\ UNCHANGED <<scope, compiled, callback, under, failed>>

CallFails ==
  /\ calls # <<>> /\ Top.op = "call"
  /\ stack' = [stack EXCEPT ![Top.thread] = Pop(Pop(Push(@, Error), 1), Top.pushed)]
  /\ calls' = Pop(calls, 1)
  /\ UNCHANGED <<scope, compiled, callback, under, failed>>

--------------------------------------------------------------------------------
Next ==
  \/ \E p, t \in Threads : newThread(p, t)
  \/ \E f \in Files : precompile(f)
  \/ \E t \in Threads : \E f \in Files :
       CompileFails(t, f) \/ loadScript(t, f) \/ loadScriptWithNamespace(t, f)
  \/ \E t \in Threads : \E n \in 0 .. MaxArgs : call(t, n) \/ CallNothing(t, n)
  \/ Define \/ Return \/ LoadFails \/ NamespaceFails \/ CallFails

Spec == Init /\ [][Next]_vars

--------------------------------------------------------------------------------
Ops == {"load", "namespace", "call"}

TypeOK ==
  /\ scope \in [Threads -> Seq(Threads)]
  /\ compiled \in [Files -> Environments \cup {None}]
  /\ callback \in [Environments -> [thread : Threads, op : Ops] \cup {None}]
  /\ stack \in [Threads -> Seq(Int)]
  /\ under \in [Threads -> Nat]
  /\ failed \in [Threads -> Nat]
  /\ calls \in Seq([thread : Threads, op : Ops, env : Environments \cup {None},
                     pushed : 0 .. MaxArgs])
  /\ Len(calls) <= MaxDepth
  /\ \A k \in DOMAIN calls : calls[k].op # "call" => calls[k].env # None

(* The callbacks in a thread's environment are those of the script that    *)
(* the thread itself loaded, although all threads that load a file share   *)
(* its compiled function, and scripts that load others are still running;  *)
(* those of a script with a namespace stay in that namespace.              *)
OwnCallbacks ==
  /\ \A t \in Threads : callback[t] \in {None, [thread |-> t, op |-> "load"]}
  /\ callback[namespace] # None => callback[namespace].op = "namespace"

(* What a running script leaves on the stack of its thread. *)
Below(c) == CASE c.op = "load"      -> <<>>
              [] c.op = "namespace" -> <<Function, Environment>>
              [] c.op = "call"      -> Arguments(c.pushed)

(* However loads and calls nest, succeed and fail, a thread's stack holds  *)
(* nothing when nothing runs on it, and what is expected below the one     *)
(* script that does, so that the assertion in call holds (Script.m:564).   *)
(* Its top has fallen by one for each load with a namespace that failed on *)
(* that thread (Script.m:276), and is where it was found in spite of every *)
(* other load and call, failing or not.                                    *)
Balanced ==
  \A t \in Threads :
    /\ ~Running(t) => stack[t] = <<>>
    /\ \A k \in DOMAIN calls : calls[k].thread = t => stack[t] = Below(calls[k])
    /\ lua_gettop(t) = Len(stack[t]) - failed[t]

================================================================================
