--------------------------------- MODULE LuaVM ---------------------------------
(***************************************************************************)
(* The Lua virtual machine: lvm.c.  Every instruction is an operator from  *)
(* the state of the machine before it to the one after it.  An instruction *)
(* that calls a metamethod leaves the rest of its work on the C stack.     *)
(***************************************************************************)
EXTENDS LuaDo
LOCAL INSTANCE TLC

CONSTANTS MAXTAGLOOP,    \* tables a lookup goes through: 100
          MaxNumber      \* strings of the numbers -MaxNumber..MaxNumber are known

(* Conversions of numbers and strings. *)
luaV_tonumber(v) ==
  LET ns == {n \in -MaxNumber .. MaxNumber : v = Str(ToString(n))}
  IN IF IsNumber(v) THEN v ELSE IF ns # {} THEN Num(CHOOSE n \in ns : TRUE) ELSE Nil
luaV_tostring(v) == IF IsNumber(v) THEN Str(ToString(v[2])) ELSE v
IsText(v) == IsNumber(v) \/ IsString(v)

--------------------------------------------------------------------------------
(* Metamethods.  The frame left on C says where the result goes, or, of a  *)
(* comparison, what instruction it is for and if the answer is negated.    *)
TMFrame(use, arg) == [k |-> "tm", use |-> use, arg |-> arg, called |-> FALSE, protects |-> FALSE]
callTMres(M, f, p1, p2, frame) ==
  luaD_call(PushC(Push(M, <<f, p1, p2>>), frame), Top(M), 1)
callTM(M, f, p1, p2, p3) ==
  luaD_call(PushC(Push(M, <<f, p1, p2, p3>>), TMFrame("none", 0)), Top(M), 0)

(* Where the metamethod "event" of v is looked for: a table keeps in mind  *)
(* that there is none.                                                     *)
TM(M, v, event) == IF IsTable(v) THEN fasttm(M, metatable(M, v), event) ELSE luaT_gettmbyobj(M, v, event)
Looked(M, v, event) == IF IsTable(v) THEN Cached(M, metatable(M, v), event) ELSE M

RECURSIVE gettable(_, _, _, _, _), settable(_, _, _, _, _, _)
(* What is not found in t, and not a table's: in its metamethod.  Only     *)
(* tables have a metatable here.                                           *)
GetByTM(M, tm, t, key, val, loop) ==
  CASE tm = Nil /\ IsTable(t) -> SetSlot(M, val, Nil)
    [] tm = Nil -> luaG_typeerror(M, "index")
    [] IsFunction(tm) -> callTMres(M, tm, t, key, TMFrame("res", val))
    [] OTHER -> gettable(M, tm, key, val, loop + 1)
gettable(M, t, key, val, loop) ==
  CASE loop = MAXTAGLOOP -> luaG_runerror(M, "loop in gettable")
    [] IsTable(t) /\ luaH_get(M.tables[t[2]], key) # Nil ->
         SetSlot(M, val, luaH_get(M.tables[t[2]], key))
    [] OTHER -> GetByTM(Looked(M, t, "index"), TM(M, t, "index"), t, key, val, loop)
luaV_gettable(M, t, key, val) == gettable(M, t, key, val, 0)

(* luaH_set makes a place for the key before it is known whether there is  *)
(* a metamethod.  After the first table t points into the metatable "from" *)
(* where it was found: if that is the table which gets new nodes, a        *)
(* function is called with what is no longer there, and may do anything.   *)
CanBeKey(key) == key # Nil
SetField(M, t, key, val) == [M EXCEPT !.tables[t[2]] = Store(@, key, val)]
SetByTM(M, tm, gone, t, key, val, loop) ==
  CASE tm = Nil -> SetField(M, t, key, val)
    [] IsFunction(tm) -> IF gone THEN Undefined(M, "t is gone") ELSE callTM(M, tm, t, key, val)
    [] OTHER -> settable(M, tm, key, val, loop + 1, metatable(M, t))
SetInTable(M, old, gone, t, key, val, loop) ==
  IF old # Nil THEN SetField(M, t, key, val)
  ELSE SetByTM(Looked(M, t, "newindex"), TM(M, t, "newindex"), gone, t, key, val, loop)
settable(M, t, key, val, loop, from) ==
  CASE loop = MAXTAGLOOP -> luaG_runerror(M, "loop in settable")
    [] ~IsTable(t) -> luaG_typeerror(M, "index")
    [] ~CanBeKey(key) -> luaG_runerror(M, "table index is nil")
    [] OTHER -> SetInTable([M EXCEPT !.tables[t[2]] = luaH_set(@, key)], luaH_get(M.tables[t[2]], key),
                           t[2] = from /\ Rehashes(M.tables[t[2]], key), t, key, val, loop)
luaV_settable(M, t, key, val) == settable(M, t, key, val, 0, NULL)

BinTM(M, p1, p2, event) ==
  IF luaT_gettmbyobj(M, p1, event) # Nil THEN luaT_gettmbyobj(M, p1, event)
  ELSE luaT_gettmbyobj(M, p2, event)

(* An equality of two tables, and an order of two values, have a metamethod *)
(* only if both values have the same.                                      *)
get_compTM(M, mt1, mt2, event) ==
  LET tm1 == fasttm(M, mt1, event)
  IN IF tm1 = Nil \/ mt1 = mt2 THEN tm1
     ELSE IF fasttm(M, mt2, event) = tm1 THEN tm1 ELSE Nil
OrderTM(M, p1, p2, event) ==
  LET tm == luaT_gettmbyobj(M, p1, event)
  IN IF luaT_gettmbyobj(M, p2, event) = tm THEN tm ELSE Nil

EventOf == [o \in {"ADD", "SUB", "MUL", "DIV", "MOD", "POW", "UNM"} |->
  CASE o = "ADD" -> "add" [] o = "SUB" -> "sub" [] o = "MUL" -> "mul" [] o = "DIV" -> "div"
    [] o = "MOD" -> "mod" [] o = "POW" -> "pow" [] o = "UNM" -> "unm"]
ArithValues(M, o, ra, rb, rc) ==
  LET b == luaV_tonumber(rb)
      c == luaV_tonumber(rc)
      tm == BinTM(M, rb, rc, EventOf[o])
  IN IF b # Nil /\ c # Nil THEN SetSlot(M, ra, Num(Arith(o, b[2], c[2])))
     ELSE IF tm # Nil THEN callTMres(M, tm, rb, rc, TMFrame("res", ra))
     ELSE luaG_typeerror(M, "perform arithmetic on")

(* luaV_concat: the values from the right; as many strings and numbers as  *)
(* there are are one string, two others are for a metamethod.  When one    *)
(* value is left, it goes to register a.                                   *)
RECURSIVE Joined(_), luaV_concat(_, _, _, _)
Joined(vals) == IF vals = <<>> THEN "" ELSE luaV_tostring(vals[1])[2] \o Joined(Tail(vals))
luaV_concat(M, total, last, i) ==
  LET top == L(M).base + last + 1
      v(j) == Slot(M, top - j)
      tm == BinTM(M, v(2), v(1), "concat")
      run == CHOOSE n \in 2 .. total : /\ \A j \in 2 .. n : IsText(v(j))
                                       /\ n < total => ~IsText(v(n + 1))
      n == IF v(1) = Str("") THEN 2 ELSE run
      joined == SetSlot(M, top - n, Str(Joined(Slots(M, top - n, n))))
  IN IF total = 1 THEN SetSlot(M, L(M).base + i.a, Slot(M, L(M).base + i.b))
     ELSE IF IsText(v(2)) /\ IsText(v(1))
     THEN luaV_concat(joined, total - (n - 1), last - (n - 1), i)
     ELSE IF tm # Nil
     THEN callTMres(M, tm, v(2), v(1), TMFrame("concat", [total |-> total, last |-> last, i |-> i]))
     ELSE luaG_typeerror(M, "concatenate")

--------------------------------------------------------------------------------
(* The interpreter.  Instruction i is done in M, where savedpc is already  *)
(* past it.                                                                *)
Code(M) == Proto(M, Slot(M, CI(M).func)).code
pc(M) == L(M).savedpc
Instruction(M) == Code(M)[pc(M) + 1]
Fetched(M) == [M EXCEPT !.threads[M.cur].savedpc = @ + 1]
dojump(M, n) == [M EXCEPT !.threads[M.cur].savedpc = @ + n]
Skip(M) == dojump(M, 1)

K(M, i) == Proto(M, Slot(M, CI(M).func)).k[i + 1]
RA(M, i) == L(M).base + i.a
R(M, r) == Slot(M, L(M).base + r)
RK(M, x) == IF ISK(x) THEN K(M, INDEXK(x)) ELSE R(M, x)
Upvals(M) == Closure(M, Slot(M, CI(M).func)).upvals
Globals == Table(1)
SetR(M, i, v) == SetSlot(M, RA(M, i), v)

OP_MOVE(M, i) == SetR(M, i, R(M, i.b))
OP_LOADK(M, i) == SetR(M, i, K(M, i.b))
OP_LOADBOOL(M, i) ==
  LET M1 == SetR(M, i, Bool(i.b = 1)) IN IF i.c = 1 THEN Skip(M1) ELSE M1
OP_LOADNIL(M, i) == SetSlots(M, RA(M, i), Nils(i.b - i.a + 1))

OP_GETUPVAL(M, i) == SetR(M, i, UpvalValue(M, Upvals(M)[i.b + 1]))
OP_SETUPVAL(M, i) == SetUpval(M, Upvals(M)[i.b + 1], R(M, i.a))
OP_GETGLOBAL(M, i) == luaV_gettable(M, Globals, K(M, i.b), RA(M, i))
OP_SETGLOBAL(M, i) == luaV_settable(M, Globals, K(M, i.b), R(M, i.a))
OP_GETTABLE(M, i) == luaV_gettable(M, R(M, i.b), RK(M, i.c), RA(M, i))
OP_SETTABLE(M, i) == luaV_settable(M, R(M, i.a), RK(M, i.b), RK(M, i.c))
OP_SELF(M, i) ==
  luaV_gettable(SetSlot(M, RA(M, i) + 1, R(M, i.b)), R(M, i.b), RK(M, i.c), RA(M, i))

luaO_fb2int(x) == IF x < 8 THEN x ELSE ((x % 8) + 8) * 2 ^ (x \div 8 - 1)
OP_NEWTABLE(M, i) ==
  SetR(AddTable(M, luaH_new(luaO_fb2int(i.b), luaO_fb2int(i.c))), i, NewTable(M))

(* ADD and its kin, and UNM, whose one operand stands for both. *)
OP_ARITH(M, i) ==
  ArithValues(M, i.op, RA(M, i), RK(M, i.b), RK(M, IF i.op = "UNM" THEN i.b ELSE i.c))
OP_NOT(M, i) == SetR(M, i, Bool(IsFalse(R(M, i.b))))
OP_LEN(M, i) ==
  LET v == R(M, i.b)
      tm == BinTM(M, v, Nil, "len")
  IN CASE IsTable(v) -> SetR(M, i, Num(luaH_getn(M.tables[v[2]])))
       [] IsString(v) -> SetR(M, i, Num(Len(v[2])))
       [] tm # Nil -> callTMres(M, tm, v, Nil, TMFrame("res", RA(M, i)))
       [] OTHER -> luaG_typeerror(M, "get length of")
OP_CONCAT(M, i) == luaV_concat(M, i.c - i.b + 1, i.c, i)

OP_JMP(M, i) == dojump(M, i.b)

(* A comparison with the answer A goes on at the jump after it, any other  *)
(* one past that.                                                          *)
Branch(M, cond) == IF cond THEN Skip(dojump(M, Instruction(M).b)) ELSE Skip(M)
Compared(M, i, res) == Branch(M, (IF res THEN 1 ELSE 0) = i.a)
CompareTM(M, tm, p1, p2, i, negate) ==
  callTMres(M, tm, p1, p2, TMFrame("compare", [i |-> i, negate |-> negate]))

OP_EQ(M, i) ==
  LET b == RK(M, i.b)
      c == RK(M, i.c)
      tm == get_compTM(M, metatable(M, b), metatable(M, c), "eq")
      seen == IF fasttm(M, metatable(M, b), "eq") = Nil THEN b ELSE c
      M1 == Cached(M, metatable(M, seen), "eq")
  IN IF IsTable(b) /\ IsTable(c) /\ b # c
     THEN IF tm = Nil THEN Compared(M1, i, FALSE) ELSE CompareTM(M, tm, b, c, i, FALSE)
     ELSE Compared(M, i, b = c)
Less(v, w) == IF IsNumber(v) THEN v[2] < w[2] ELSE StringLess(v[2], w[2])
Ordered(v, w) == type(v) = type(w) /\ IsText(v)
OP_LT(M, i) ==
  LET b == RK(M, i.b)
      c == RK(M, i.c)
      tm == OrderTM(M, b, c, "lt")
  IN IF Ordered(b, c) THEN Compared(M, i, Less(b, c))
     ELSE IF type(b) = type(c) /\ tm # Nil THEN CompareTM(M, tm, b, c, i, FALSE)
     ELSE luaG_runerror(M, "attempt to compare")
(* First "le", else "lt" the other way round. *)
OP_LE(M, i) ==
  LET b == RK(M, i.b)
      c == RK(M, i.c)
      le == OrderTM(M, b, c, "le")
      lt == OrderTM(M, c, b, "lt")
  IN IF Ordered(b, c) THEN Compared(M, i, ~Less(c, b))
     ELSE IF type(b) = type(c) /\ le # Nil THEN CompareTM(M, le, b, c, i, FALSE)
     ELSE IF type(b) = type(c) /\ lt # Nil THEN CompareTM(M, lt, c, b, i, TRUE)
     ELSE luaG_runerror(M, "attempt to compare")
OP_TEST(M, i) == Branch(M, IsFalse(R(M, i.a)) # (i.c = 1))
OP_TESTSET(M, i) ==
  LET taken == IsFalse(R(M, i.b)) # (i.c = 1)
  IN Branch(IF taken THEN SetR(M, i, R(M, i.b)) ELSE M, taken)

--------------------------------------------------------------------------------
(* Calls.  Without a count (B = 0) the arguments go up to the top that the *)
(* instruction before has set.                                             *)
SetNExec(M, n) == [M EXCEPT !.C[Len(M.C)].nexeccalls = n]
NExec(M) == CTop(M).nexeccalls
WithArgs(M, i) == IF i.b # 0 THEN SetTop(M, RA(M, i) + i.b) ELSE M

(* The function runs in the same luaV_execute, if it is one of Lua's. *)
Nested(M) == IF Running(M) /\ EnteredLua(M) THEN SetNExec(M, NExec(M) + 1) ELSE M
OP_CALL(M, i) == Nested(luaD_precall(WithArgs(M, i), RA(M, i), i.c - 1, FALSE))

(* The new frame is put in place of the one that calls. *)
TopAsNeeded(M) == Top(M) = L(M).base + Proto(M, Slot(M, CI(M).func)).maxstacksize
Replaced(M, frame, from) ==
  [SetTop(SetSlots(M, frame.func, Extra(M, from)), frame.top) EXCEPT
     !.threads[M.cur].ci = SubSeq(@, 1, Len(@) - 2) \o <<frame>>, !.threads[M.cur].base = frame.base]
TailMoved(M, old, new) ==
  Replaced(luaF_close(M, old.base),
           [old EXCEPT !.base = old.func + (new.base - new.func),
                       !.top = old.func + (Top(M) - new.func), !.savedpc = 0], new.func)
Rechecked(M) == lua_assert(M, TopAsNeeded(M), "tail call's top")
TailCalled(M) ==
  IF Running(M) /\ EnteredLua(M) THEN Rechecked(TailMoved(M, L(M).ci[Len(L(M).ci) - 1], CI(M))) ELSE M
OP_TAILCALL(M, i) ==
  TailCalled(luaD_precall(lua_assert(WithArgs(M, i), i.c - 1 = LUA_MULTRET, "tail call for some results"),
                          RA(M, i), LUA_MULTRET, FALSE))

(* luaV_execute returns to what called it when its first function does. *)
CalledFrom(M) == lua_assert(M, Code(M)[pc(M)].op = "CALL", "return to something else than a call")
Resumes(M, fixed) == CalledFrom(SetNExec(IF fixed THEN SetTop(M, CI(M).top) ELSE M, NExec(M) - 1))
Returned(M, fixed) == IF NExec(M) = 1 THEN EndC(M) ELSE Resumes(M, fixed)
OP_RETURN(M, i) ==
  Returned(luaD_poscall(luaF_close(IF i.b # 0 THEN SetTop(M, RA(M, i) + i.b - 1) ELSE M, L(M).base),
                        RA(M, i)),
           CI(M).nresults # LUA_MULTRET)

--------------------------------------------------------------------------------
(* Loops: index, limit and step, and the variable, are in A to A + 3. *)
OP_FORLOOP(M, i) ==
  LET step == R(M, i.a + 2)[2]
      idx == R(M, i.a)[2] + step
      limit == R(M, i.a + 1)[2]
  IN IF IF 0 < step THEN idx <= limit ELSE limit <= idx
     THEN SetSlot(SetR(dojump(M, i.b), i, Num(idx)), RA(M, i) + 3, Num(idx))
     ELSE M
OP_FORPREP(M, i) ==
  LET n(j) == luaV_tonumber(R(M, i.a + j))
  IN CASE n(0) = Nil -> luaG_runerror(M, "'for' initial value must be a number")
       [] n(1) = Nil -> luaG_runerror(M, "'for' limit must be a number")
       [] n(2) = Nil -> luaG_runerror(M, "'for' step must be a number")
       [] OTHER -> dojump(SetSlots(M, RA(M, i), <<Num(n(0)[2] - n(2)[2]), n(1), n(2)>>), i.b)
(* The generator is called with state and control; its results come to the *)
(* variables.                                                              *)
OP_TFORLOOP(M, i) ==
  LET cb == RA(M, i) + 3
  IN luaD_call(PushC(SetTop(SetSlots(M, cb, Slots(M, RA(M, i), 3)), cb + 3), TMFrame("tforloop", i)),
               cb, i.c)

--------------------------------------------------------------------------------
(* A count that does not fit in C is the word after the instruction. *)
(* The values lie above the table; the last one is set first. *)
Downward(last, vals) ==
  [j \in 1 .. Len(vals) |-> <<Num(last - j + 1), vals[Len(vals) - j + 1]>>]
SetItems(t, last, vals) ==
  Filled(IF last > sizearray(t) THEN luaH_resizearray(t, last) ELSE t, Downward(last, vals))
SetList(M, h, last, vals) == [M EXCEPT !.tables[h] = SetItems(@, last, vals)]
AfterList(M, i) ==
  IF i.c = 0 THEN Skip(IF i.b = 0 THEN WholeFrame(M) ELSE M) ELSE IF i.b = 0 THEN WholeFrame(M) ELSE M
Batch(M, i) == IF i.c = 0 THEN Instruction(M).b ELSE i.c
Items(M, i) == Slots(M, RA(M, i) + 1, IF i.b = 0 THEN Top(M) - RA(M, i) - 1 ELSE i.b)
ListOf(M, i, c, vals) ==
  SetList(AfterList(M, i), R(M, i.a)[2], (c - 1) * LFIELDS_PER_FLUSH + Len(vals), vals)
OP_SETLIST(M, i) == ListOf(M, i, Batch(M, i), Items(M, i))

OP_CLOSE(M, i) == luaF_close(M, RA(M, i))

(* After a CLOSURE there is, for each upvalue, where it comes from. *)
RECURSIVE WithUpvalues(_, _, _)
Shared(x, f) == [m |-> f.m, us |-> Append(x.us, f.u)]
WithUpvalues(M, x, how) ==
  IF how = <<>> THEN x
  ELSE WithUpvalues(M, IF how[1].op = "GETUPVAL"
                       THEN [x EXCEPT !.us = Append(@, Upvals(M)[how[1].b + 1])]
                       ELSE Shared(x, luaF_findupval(x.m, L(M).base + how[1].b)), Tail(how))
NewClosure(M, x, p, i) ==
  SetR(AddFunction(x.m, [isC |-> FALSE, p |-> p, upvals |-> x.us]), i, NewFunctionValue(M))
ClosureOf(M, p, nup, i) ==
  dojump(NewClosure(M, WithUpvalues(M, [m |-> M, us |-> <<>>], SubSeq(Code(M), pc(M) + 1, pc(M) + nup)), p, i),
         nup)
OP_CLOSURE(M, i) ==
  LET p == Proto(M, Slot(M, CI(M).func)).p[i.b + 1] IN ClosureOf(M, p, M.protos[p].nups, i)

(* The arguments past the parameters lie below the base. *)
OP_VARARG(M, i) ==
  LET n == CI(M).base - CI(M).func - Proto(M, Slot(M, CI(M).func)).numparams - 1
      b == IF i.b - 1 = LUA_MULTRET THEN n ELSE i.b - 1
      vals == [j \in 1 .. b |-> IF j <= n THEN Slot(M, CI(M).base - n + j - 1) ELSE Nil]
      M1 == SetSlots(M, RA(M, i), vals)
  IN IF i.b - 1 = LUA_MULTRET THEN SetTop(M1, RA(M, i) + n) ELSE M1

(* What follows a metamethod, or the generator of a loop. *)
CallIsDone(M, frame, res) ==
  CASE frame.use = "res" -> SetSlot(M, frame.arg, res)
    [] frame.use = "compare" -> Compared(M, frame.arg.i, IsFalse(res) = frame.arg.negate)
    [] frame.use = "concat" ->
         luaV_concat(SetSlot(M, L(M).base + frame.arg.last - 1, res),
                     frame.arg.total - 1, frame.arg.last - 1, frame.arg.i)
Generated(M, cb) == Branch(IF Slot(M, cb) # Nil THEN SetSlot(M, cb - 1, Slot(M, cb)) ELSE M, Slot(M, cb) # Nil)
AfterCall(M) ==
  LET frame == CTop(M)
  IN CASE frame.use = "none" -> PopC(M)
       [] frame.use = "tforloop" -> Generated(WholeFrame(PopC(M)), L(M).base + frame.arg.a + 3)
       [] OTHER -> CallIsDone(SetTop(PopC(M), Top(M) - 1), frame, Slot(M, Top(M) - 1))
================================================================================
