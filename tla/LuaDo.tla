--------------------------------- MODULE LuaDo ---------------------------------
(***************************************************************************)
(* Stacks, calls and errors of the Lua virtual machine: ldo.m, with the    *)
(* upvalues of lfunc.c, the metamethods of ltm.c and the data of lstate.h. *)
(*                                                                         *)
(* A state of the machine is a record M:                                   *)
(*   prog     the program, and protos, its functions, the main one last;   *)
(*   whole    its file was read to the end;                                *)
(*   tables, functions, upvals   the objects, by their numbers;            *)
(*   threads  the Lua stacks, by number; cur is the one that runs;         *)
(*   C        the C stack: what luaV_execute and C functions still have    *)
(*            to do, the innermost last;                                   *)
(*   out      what the program has printed;                                *)
(*   status   "opening", "running", "ok", "error" or "undefined"; err is   *)
(*            the error's value.                                           *)
(* A C function of the source is an operator from M to M.  Where it calls  *)
(* a Lua function, the rest of it is put on C.  Indices of stacks are      *)
(* absolute and begin at 0.                                                *)
(***************************************************************************)
EXTENDS LuaTable

CONSTANTS BASIC_CI_SIZE, LUAI_MAXCALLS,  \* 8, 20000: calls on a Lua stack
          LUA_MINSTACK      \* 20: slots a C function has

Table(i) == <<"table", i>>
Function(i) == <<"function", i>>
Thread(i) == <<"thread", i>>
IsTable(v) == v[1] = "table"
IsFunction(v) == v[1] = "function"
type(v) == CASE v[1] = "num" -> "number" [] v[1] = "str" -> "string"
             [] v[1] = "bool" -> "boolean" [] OTHER -> v[1]

L(M) == M.threads[M.cur]
CI(M) == L(M).ci[Len(L(M).ci)]
Top(M) == L(M).top
Closure(M, v) == M.functions[v[2]]
Proto(M, v) == M.protos[Closure(M, v).p]

(* A slot of the stack, and what lies in it.  Slots that were never        *)
(* written are nil.                                                        *)
SlotOf(th, i) == IF i < Len(th.stack) THEN th.stack[i + 1] ELSE Nil
Slot(M, i) == SlotOf(L(M), i)
Nils(n) == [j \in 1 .. n |-> Nil]
Wider(s, n) == IF n > Len(s) THEN s \o Nils(n - Len(s)) ELSE s
(* Values from slot i on. *)
SetSlots(M, i, vals) ==
  [M EXCEPT !.threads[M.cur].stack =
     SubSeq(Wider(@, i), 1, i) \o vals \o SubSeq(@, i + Len(vals) + 1, Len(@))]
SetSlot(M, i, v) == SetSlots(M, i, <<v>>)
SetTop(M, top) == [M EXCEPT !.threads[M.cur].top = top]
Slots(M, i, n) == [j \in 1 .. n |-> Slot(M, i + j - 1)]
Push(M, vals) == SetTop(SetSlots(M, Top(M), vals), Top(M) + Len(vals))

(* stack_init: a thread with a first call, of no function. *)
NewThread == [stack |-> <<Nil>>, top |-> 1, base |-> 1, savedpc |-> 0,
              ci |-> <<[func |-> 0, base |-> 1, top |-> 1 + LUA_MINSTACK, nresults |-> 0,
                        savedpc |-> 0]>>,
              size_ci |-> BASIC_CI_SIZE, openupval |-> <<>>, status |-> "ok",
              nCcalls |-> 0, baseCcalls |-> 0]

CTop(M) == M.C[Len(M.C)]
PushC(M, frame) == [M EXCEPT !.C = Append(@, frame)]
PopC(M) == [M EXCEPT !.C = SubSeq(@, 1, Len(@) - 1)]
(* lua_assert: the first that fails stays in "failed". *)
(* After undefined behaviour nothing is said of the machine.               *)
Undefined(M, what) == [M EXCEPT !.status = "undefined", !.failed = what]
lua_assert(M, cond, what) == IF cond \/ M.failed # "" THEN M ELSE [M EXCEPT !.failed = what]

AddTable(M, t) == [M EXCEPT !.tables = Append(@, t)]
NewTable(M) == Table(Len(M.tables) + 1)
AddFunction(M, f) == [M EXCEPT !.functions = Append(@, f)]
NewFunctionValue(M) == Function(Len(M.functions) + 1)

--------------------------------------------------------------------------------
(* Metamethods: ltm.c.  An event that a metatable has not is noted in its  *)
(* flags until something is set in it (fasttm, for the events to TM_EQ).   *)
metatable(M, v) == IF IsTable(v) THEN M.tables[v[2]].metatable ELSE NULL
luaT_gettmbyobj(M, v, e) ==
  IF metatable(M, v) = NULL THEN Nil ELSE luaH_get(M.tables[metatable(M, v)], Event(e))
fasttm(M, mt, e) ==
  IF mt = NULL \/ e \in M.tables[mt].flags THEN Nil ELSE luaH_get(M.tables[mt], Event(e))
(* luaT_gettm: the absence that a look at an event finds is remembered.    *)
Cached(M, mt, e) ==
  IF mt # NULL /\ fasttm(M, mt, e) = Nil THEN [M EXCEPT !.tables[mt].flags = @ \cup {e}] ELSE M

--------------------------------------------------------------------------------
(* Upvalues: lfunc.c.  Open ones are listed from the top of the stack to   *)
(* its bottom; their value lives in the stack.                             *)
UpvalValue(M, u) == LET uv == M.upvals[u]
                    IN IF uv.open THEN SlotOf(M.threads[uv.thread], uv.level) ELSE uv.value
SetUpval(M, u, v) ==
  IF M.upvals[u].open THEN [M EXCEPT !.threads[M.upvals[u].thread].stack[M.upvals[u].level + 1] = v]
  ELSE [M EXCEPT !.upvals[u].value = v]

Level(M, j) == M.upvals[L(M).openupval[j]].level
luaF_findupval(M, level) ==
  LET open == L(M).openupval
      above == {j \in DOMAIN open : Level(M, j) > level}
      n == Cardinality(above)
      uv == [open |-> TRUE, thread |-> M.cur, level |-> level, value |-> Nil]
      found == n < Len(open) /\ Level(M, n + 1) = level
  IN IF found THEN [m |-> M, u |-> open[n + 1]]
     ELSE [m |-> [M EXCEPT !.upvals = Append(@, uv),
                           !.threads[M.cur].openupval =
                              SubSeq(@, 1, n) \o <<Len(M.upvals) + 1>> \o SubSeq(@, n + 1, Len(@))],
           u |-> Len(M.upvals) + 1]

(* The upvalues of a level and of all above get a value of their own. *)
luaF_close(M, level) ==
  LET open == L(M).openupval
      kept == SelectSeq(open, LAMBDA u : M.upvals[u].level < level)
      closed == {open[j] : j \in {i \in DOMAIN open : Level(M, i) >= level}}
  IN [M EXCEPT !.threads[M.cur].openupval = kept,
               !.upvals = [u \in DOMAIN @ |->
                  IF u \in closed THEN [@[u] EXCEPT !.open = FALSE, !.value = UpvalValue(M, u)]
                  ELSE @[u]]]

--------------------------------------------------------------------------------
(* Errors.  A frame of C with a field "protects" is a luaD_rawrunprotected *)
(* whose handler takes the error: the machine goes on there, in the state  *)
(* "caught" until the handler has run.                                     *)
luaD_throw(M, status, v) ==
  LET handlers == {j \in DOMAIN M.C : M.C[j].protects}
      h == CHOOSE j \in handlers : \A k \in handlers : k <= j
  IN IF handlers = {} THEN [M EXCEPT !.status = "error", !.err = v, !.C = <<>>]
     ELSE [M EXCEPT !.C = SubSeq(@, 1, h), !.caught = <<status, v>>]
luaG_errormsg(M, v) == luaD_throw(M, "LUA_ERRRUN", v)
luaG_runerror(M, text) == luaG_errormsg(M, Str(text))
luaG_typeerror(M, op) == luaG_runerror(M, "attempt to " \o op)

(* luaD_seterrorobj *)
ErrorObject(status, v) == IF status = "LUA_ERRERR" THEN Str("error in error handling") ELSE v

(* The calls of a Lua stack have twice the room when it is used up; past   *)
(* the limit that is an error, and what is gained is for its handling.     *)
MoreCalls(M, ci) == [M EXCEPT !.threads[M.cur].ci = Append(@, ci)]
growCI(M) == [M EXCEPT !.threads[M.cur].size_ci = 2 * @]
inc_ci(M, ci) ==
  IF Len(L(M).ci) < L(M).size_ci THEN MoreCalls(M, ci)
  ELSE IF L(M).size_ci > LUAI_MAXCALLS THEN luaD_throw(M, "LUA_ERRERR", Nil)
  ELSE IF 2 * L(M).size_ci > LUAI_MAXCALLS THEN luaG_runerror(growCI(M), "stack overflow")
  ELSE MoreCalls(growCI(M), ci)
restore_stack_limit(M) ==
  IF L(M).size_ci > LUAI_MAXCALLS /\ Len(L(M).ci) < LUAI_MAXCALLS
  THEN [M EXCEPT !.threads[M.cur].size_ci = LUAI_MAXCALLS] ELSE M

Running(M) == M.status = "running" /\ M.caught = <<>>

--------------------------------------------------------------------------------
(* Calls.  *)
(* The parameters of a vararg function, at fixed, are copied above the    *)
(* arguments; a table of the other arguments may follow.                   *)
RECURSIVE Filled(_, _)
Filled(t, entries) ==
  IF entries = <<>> THEN t
  ELSE Filled(Store(luaH_setnum(t, entries[1][1]), entries[1][1], entries[1][2]), Tail(entries))
Numbered(vals) == [j \in 1 .. Len(vals) |-> <<Num(j), vals[j]>>]
VarargTable(vals) == Filled(luaH_new(Len(vals), 1), Append(Numbered(vals), <<Str("n"), Num(Len(vals))>>))
WithArg(M, extra) == Push(AddTable(M, VarargTable(extra)), <<NewTable(M)>>)
Moved(M, fixed, n) == SetSlots(Push(M, Slots(M, fixed, n)), fixed, Nils(n))
Extra(M, from) == Slots(M, from, Top(M) - from)
adjust_varargs(M, p, fixed) ==
  IF "NEEDSARG" \in p.is_vararg
  THEN WithArg(Moved(M, fixed, p.numparams), Extra(M, fixed + p.numparams))
  ELSE Moved(M, fixed, p.numparams)

(* Something that is not a function: its metamethod "call" is called with  *)
(* it as the first argument.                                               *)
tryfuncTM(M, func) ==
  SetTop(SetSlots(M, func, <<luaT_gettmbyobj(M, Slot(M, func), "call")>>
                             \o Slots(M, func, Top(M) - func)), Top(M) + 1)

(* A call of the function in slot func: a Lua function gets its frame (and *)
(* whoever called it executes it), a C function gets its own and comes on  *)
(* C.  "called": it was called by luaD_call.                               *)
ClearedTo(M, top) == IF Top(M) < top THEN Push(M, Nils(top - Top(M))) ELSE SetTop(M, top)
NewFrame(func, base, top, nresults) ==
  [func |-> func, base |-> base, top |-> top, nresults |-> nresults, savedpc |-> 0]
Begun(M, base, top) ==
  IF Running(M) THEN [ClearedTo(M, top) EXCEPT !.threads[M.cur].base = base, !.threads[M.cur].savedpc = 0]
  ELSE M
EnterLua(M, func, base, top, nresults) == Begun(inc_ci(M, NewFrame(func, base, top, nresults)), base, top)
EnterVararg(M, p, func, nresults) ==
  EnterLua(adjust_varargs(M, p, func + 1), func, Top(M), Top(M) + p.maxstacksize, nresults)
AtLeast(M, top) == IF Top(M) < top THEN ClearedTo(M, top) ELSE M
AtMost(M, top) == IF Top(M) > top THEN SetTop(M, top) ELSE M
PrecallProto(M, p, func, nresults) ==
  IF p.is_vararg = {}
  THEN EnterLua(AtMost(M, func + 1 + p.numparams), func, func + 1, func + 1 + p.maxstacksize, nresults)
  ELSE EnterVararg(AtLeast(M, func + 1 + p.numparams), p, func, nresults)
PrecallLua(M, func, nresults) == PrecallProto(M, Proto(M, Slot(M, func)), func, nresults)

EnterC(M, f, func, called) ==
  IF Running(M)
  THEN PushC([M EXCEPT !.threads[M.cur].base = func + 1],
             [k |-> "C", f |-> f.f, upval |-> f.upval, called |-> called, stage |-> 0,
              protects |-> FALSE, x |-> <<>>])
  ELSE M
PrecallC(M, func, nresults, called) ==
  EnterC(inc_ci(M, NewFrame(func, func + 1, Top(M) + LUA_MINSTACK, nresults)),
         Closure(M, Slot(M, func)), func, called)

SaveCI(M) == [M EXCEPT !.threads[M.cur].ci[Len(L(M).ci)].savedpc = L(M).savedpc]
Callable(M, v) == IsFunction(v) \/ IsFunction(luaT_gettmbyobj(M, v, "call"))
Callee(M, func) == SaveCI(IF IsFunction(Slot(M, func)) THEN M ELSE tryfuncTM(M, func))
IsLuaFunction(M, v) == IsFunction(v) /\ ~Closure(M, v).isC
(* Whether what has been called is a Lua function, to be executed now. *)
EnteredLua(M) == IsLuaFunction(M, Slot(M, CI(M).func))

Precall(M, func, nresults, called) ==
  IF IsLuaFunction(M, Slot(M, func)) THEN PrecallLua(M, func, nresults)
  ELSE PrecallC(M, func, nresults, called)
luaD_precall(M, func, nresults, called) ==
  IF Callable(M, Slot(M, func)) THEN Precall(Callee(M, func), func, nresults, called)
  ELSE luaG_typeerror(M, "call")

(* The results come where the function was. *)
Results(M, from, wanted) ==
  IF wanted = LUA_MULTRET THEN Extra(M, from)
  ELSE [j \in 1 .. wanted |-> IF from + j <= Top(M) THEN Slot(M, from + j - 1) ELSE Nil]
PopCI(M) == [M EXCEPT !.threads[M.cur].ci = SubSeq(@, 1, Len(@) - 1)]
ToCaller(M) ==
  [M EXCEPT !.threads[M.cur].base = CI(M).base, !.threads[M.cur].savedpc = CI(M).savedpc]
(* A mutant: the results begin a slot below the function. *)
AnsweredBelow(M, func, vals) == SetTop(SetSlots(M, func - 1, vals), func - 1 + Len(vals))
Answered(M, func, vals) == SetTop(SetSlots(M, func, vals), func + Len(vals))
luaD_poscall(M, firstResult) ==
  ToCaller(PopCI(Answered(M, CI(M).func, Results(M, firstResult, CI(M).nresults))))

Executes(nexeccalls, called) ==
  [k |-> "execute", nexeccalls |-> nexeccalls, called |-> called, protects |-> FALSE]

(* luaD_call.  One C call more than allowed is an error; an eighth more    *)
(* than that, while it is handled, is an error in error handling.          *)
Executed(M) == IF Running(M) /\ EnteredLua(M) THEN PushC(M, Executes(1, TRUE)) ELSE M
CalledOnce(M, n, func, nresults) ==
  IF n = LUAI_MAXCCALLS THEN luaG_runerror(M, "C stack overflow")
  ELSE IF n >= LUAI_MAXCCALLS + LUAI_MAXCCALLS \div 8 THEN luaD_throw(M, "LUA_ERRERR", Nil)
  ELSE Executed(luaD_precall(M, func, nresults, TRUE))
luaD_call(M, func, nresults) ==
  CalledOnce([M EXCEPT !.threads[M.cur].nCcalls = @ + 1], L(M).nCcalls + 1, func, nresults)

(* A frame of C is done: luaD_call, if that called it, goes on to its end. *)
EndC(M) == IF CTop(M).called THEN [PopC(M) EXCEPT !.threads[M.cur].nCcalls = @ - 1] ELSE PopC(M)

(* A C function returns its n topmost values.  luaV_execute, if it called  *)
(* it for a fixed number of results, gets its whole frame back.            *)
(* A mutant: it does not. *)
ReturnCAtResults(M, n) == EndC(luaD_poscall(M, Top(M) - n))
WholeFrame(M) == SetTop(M, CI(M).top)
Finished(M, fixed) == IF fixed THEN WholeFrame(EndC(M)) ELSE EndC(M)
ReturnC(M, n) == Finished(luaD_poscall(M, Top(M) - n), ~CTop(M).called /\ CI(M).nresults >= 0)
================================================================================
