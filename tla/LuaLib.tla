--------------------------------- MODULE LuaLib --------------------------------
(***************************************************************************)
(* Functions of the Lua libraries that work on the machine itself:         *)
(* lbaselib.c, with its coroutines, and ltablib.c.  A C function is the    *)
(* frame C on the C stack.  One that calls a Lua function is done in       *)
(* stages: the stage it is at, and what it keeps in variables, x, are in   *)
(* its frame.                                                              *)
(***************************************************************************)
EXTENDS LuaVM
LOCAL INSTANCE SequencesExt

(* The arguments, by their place; the ones that are not there are none.    *)
NArgs(M) == Top(M) - L(M).base
Arg(M, j) == IF j <= NArgs(M) THEN Slot(M, L(M).base + j - 1) ELSE Nil
OptInt(M, j, default) == IF Arg(M, j) = Nil THEN default ELSE luaV_tonumber(Arg(M, j))[2]
Return(M, vals) == ReturnC(Push(M, vals), Len(vals))
BadArg(M) == luaG_runerror(M, "bad argument")
(* The function is done if its arguments are right. *)
Checked(M, cond, M1) == IF cond THEN M1 ELSE BadArg(M)
ArgTable(M) == M.tables[Arg(M, 1)[2]]
AtStage(M, stage, x) == [M EXCEPT !.C[Len(M.C)].stage = stage, !.C[Len(M.C)].x = x]
Protects(M, b) == [M EXCEPT !.C[Len(M.C)].protects = b]
(* lua_insert at the first place. *)
PutFirst(M, v) ==
  SetTop(SetSlots(M, L(M).base, <<v>> \o Slots(M, L(M).base, NArgs(M))), Top(M) + 1)

rawset(M, t, key, val) == [M EXCEPT !.tables[t] = Store(luaH_set(@, key), key, val)]
rawgeti(M, t, i) == luaH_get(M.tables[t], Num(i))
rawseti(M, t, i, val) == [M EXCEPT !.tables[t] = Store(luaH_setnum(@, Num(i)), Num(i), val)]

--------------------------------------------------------------------------------
(* What prints: the program's way to the outside. *)
emit(M) ==
  Return([M EXCEPT !.out = Append(@, [j \in 1 .. NArgs(M) |-> IF Arg(M, j)[1] \in {"table", "function", "thread"}
                                                         THEN <<Arg(M, j)[1]>> ELSE Arg(M, j)])], <<>>)

(* A message gets the position of the caller, which makes it a string. *)
luaB_error(M) ==
  luaG_errormsg(M, IF IsText(Arg(M, 1)) /\ OptInt(M, 2, 1) > 0 THEN luaV_tostring(Arg(M, 1)) ELSE Arg(M, 1))
luaB_assert(M) ==
  IF NArgs(M) = 0 THEN BadArg(M)
  ELSE IF IsFalse(Arg(M, 1)) THEN luaG_runerror(M, "assertion failed!") ELSE ReturnC(M, NArgs(M))
luaB_type(M) == Checked(M, NArgs(M) >= 1, Return(M, <<Str(type(Arg(M, 1)))>>))
luaB_rawequal(M) == Checked(M, NArgs(M) >= 2, Return(M, <<Bool(Arg(M, 1) = Arg(M, 2))>>))
luaB_rawget(M) ==
  Checked(M, IsTable(Arg(M, 1)) /\ NArgs(M) >= 2, Return(M, <<luaH_get(ArgTable(M), Arg(M, 2))>>))
luaB_rawset(M) ==
  IF ~IsTable(Arg(M, 1)) \/ NArgs(M) < 3 THEN BadArg(M)
  ELSE IF Arg(M, 2) = Nil THEN luaG_runerror(M, "table index is nil")
  ELSE Return(rawset(M, Arg(M, 1)[2], Arg(M, 2), Arg(M, 3)), <<Arg(M, 1)>>)

Protection(M, v) == luaT_gettmbyobj(M, v, "metatable")
luaB_getmetatable(M) ==
  LET mt == metatable(M, Arg(M, 1))
  IN CASE NArgs(M) = 0 -> BadArg(M)
       [] mt = NULL -> Return(M, <<Nil>>)
       [] OTHER -> Return(M, <<IF Protection(M, Arg(M, 1)) # Nil THEN Protection(M, Arg(M, 1))
                               ELSE Table(mt)>>)
luaB_setmetatable(M) ==
  LET mt == Arg(M, 2)
  IN CASE ~IsTable(Arg(M, 1)) \/ NArgs(M) < 2 \/ ~(IsTable(mt) \/ mt = Nil) -> BadArg(M)
       [] Protection(M, Arg(M, 1)) # Nil -> luaG_runerror(M, "cannot change a protected metatable")
       [] OTHER -> Return([M EXCEPT !.tables[Arg(M, 1)[2]].metatable = IF IsTable(mt) THEN mt[2] ELSE NULL],
                          <<Arg(M, 1)>>)

(* Traversals. *)
luaB_next(M) ==
  CASE ~IsTable(Arg(M, 1)) -> BadArg(M)
    [] findindex(ArgTable(M), Arg(M, 2)) = -1 -> luaG_runerror(M, "invalid key to 'next'")
    [] OTHER -> Return(M, luaH_next(ArgTable(M), Arg(M, 2)))
luaB_pairs(M) == Checked(M, IsTable(Arg(M, 1)), Return(M, <<CTop(M).upval, Arg(M, 1), Nil>>))
luaB_ipairs(M) == Checked(M, IsTable(Arg(M, 1)), Return(M, <<CTop(M).upval, Arg(M, 1), Num(0)>>))
ipairsaux(M) ==
  LET i == Arg(M, 2)[2] + 1
      v == rawgeti(M, Arg(M, 1)[2], i)
  IN Checked(M, IsNumber(Arg(M, 2)) /\ IsTable(Arg(M, 1)),
             Return(M, IF v = Nil THEN <<>> ELSE <<Num(i), v>>))

luaB_unpack(M) ==
  LET first == OptInt(M, 2, 1)
      last == OptInt(M, 3, luaH_getn(ArgTable(M)))
  IN Checked(M, IsTable(Arg(M, 1)),
             Return(M, [j \in 1 .. last - first + 1 |-> rawgeti(M, Arg(M, 1)[2], first + j - 1)]))
luaB_select(M) ==
  LET n == NArgs(M)
      i0 == Arg(M, 1)[2]
      i == IF i0 < 0 THEN n + i0 ELSE IF i0 > n THEN n ELSE i0
  IN CASE Arg(M, 1) = Str("#") -> Return(M, <<Num(n - 1)>>)
       [] ~IsNumber(Arg(M, 1)) -> BadArg(M)
       [] OTHER -> Checked(M, 1 <= i, ReturnC(M, n - i))

--------------------------------------------------------------------------------
(* luaB_pcall, with luaD_pcall: what is restored after an error is in x.   *)
adjustresults(M) == IF Top(M) >= CI(M).top
                    THEN [M EXCEPT !.threads[M.cur].ci[Len(L(M).ci)].top = Top(M)] ELSE M
ReturnAll(M) == ReturnC(M, NArgs(M))
PcallStatus(M, ok) == ReturnAll(PutFirst(Protects(adjustresults(M), FALSE), Bool(ok)))
luaB_pcall(M) ==
  LET x == [ci |-> Len(L(M).ci), top |-> L(M).base, nCcalls |-> L(M).nCcalls]
  IN CASE CTop(M).stage = 1 -> PcallStatus(M, TRUE)
       [] NArgs(M) = 0 -> BadArg(M)
       [] OTHER -> luaD_call(Protects(AtStage(M, 1, x), TRUE), L(M).base, LUA_MULTRET)
WithError(M, top) ==
  SetTop(SetSlot(luaF_close(M, top), top, ErrorObject(M.caught[1], M.caught[2])), top + 1)
Unwound(M, x) ==
  [M EXCEPT !.threads[M.cur].ci = SubSeq(@, 1, x.ci), !.threads[M.cur].nCcalls = x.nCcalls, !.caught = <<>>]
PcallCaught(M) ==
  PcallStatus(restore_stack_limit(ToCaller(Unwound(WithError(M, CTop(M).x.top), CTop(M).x))), FALSE)

--------------------------------------------------------------------------------
(* Coroutines: each has a stack of its own; the C stack is common to all.  *)
costatus(M, co) ==
  LET th == M.threads[co]
  IN CASE co = M.cur -> "running"
       [] th.status = "yield" -> "suspended"
       [] th.status = "error" -> "dead"
       [] Len(th.ci) > 1 -> "normal"
       [] OTHER -> IF th.top = th.base THEN "dead" ELSE "suspended"
IsThread(v) == v[1] = "thread"
luaB_costatus(M) == Checked(M, IsThread(Arg(M, 1)), Return(M, <<Str(costatus(M, Arg(M, 1)[2]))>>))

WithThread(M) ==
  [M EXCEPT !.threads = Append(@, [NewThread EXCEPT !.stack = Append(@, Arg(M, 1)), !.top = @ + 1])]
NewThreadValue(M) == Thread(Len(M.threads) + 1)
luaB_cocreate(M) ==
  Checked(M, IsLuaFunction(M, Arg(M, 1)), Return(WithThread(M), <<NewThreadValue(M)>>))
luaB_cowrap(M) ==
  Checked(M, IsLuaFunction(M, Arg(M, 1)),
          Return(AddFunction(WithThread(M), [isC |-> TRUE, f |-> "auxwrap", upval |-> NewThreadValue(M)]),
                 <<NewFunctionValue(M)>>))
luaB_corunning(M) == Return(M, <<IF M.cur = 1 THEN Nil ELSE Thread(M.cur)>>)

(* A resumed coroutine starts its function, or completes the call of yield *)
(* it is in; and runs until it returns or yields.                          *)
Completed(M, fixed) == IF fixed THEN WholeFrame(M) ELSE M
ExecutedAll(M) == IF Running(M) THEN PushC(M, Executes(Len(L(M).ci) - 1, FALSE)) ELSE M
resume(M, first) ==
  ExecutedAll(IF L(M).status = "yield"
              THEN Completed(luaD_poscall([M EXCEPT !.threads[M.cur].status = "ok"], first),
                             CI(M).nresults # LUA_MULTRET)
              ELSE luaD_precall(M, first - 1, LUA_MULTRET, FALSE))

(* The rest of a resume: its results, and if it went well. *)
Resumed(M, isWrap, ok, vals) ==
  CASE ~isWrap -> Return(M, <<Bool(ok)>> \o vals)
    [] isWrap /\ ok -> Return(M, vals)
    [] OTHER -> luaG_errormsg(M, vals[1])

(* lua_xmove of the arguments, lua_setlevel and lua_resume: a coroutine    *)
(* counts on from the C calls of what resumes it.  It runs on until the    *)
(* frame of resume is the topmost of C again.                              *)
MovedTo(M, co, args) == Push([M EXCEPT !.cur = co, !.threads[co].nCcalls = L(M).nCcalls], args)
NewCcalls(M, n) ==
  [M EXCEPT !.threads[M.cur].nCcalls = n, !.threads[M.cur].baseCcalls = n]
lua_resume(M, nargs) == resume(NewCcalls(M, L(M).nCcalls + 1), Top(M) - nargs)
Waiting(M, co, nargs) ==
  Protects(AtStage(SetTop(M, Top(M) - nargs), 1, [co |-> co, from |-> M.cur]), TRUE)
(* A resume that goes too deep: what was on the coroutine's stack since    *)
(* its last call is gone, the function too of one that has not begun.      *)
resume_error(M, co, nargs) ==
  [SetTop(M, Top(M) - nargs) EXCEPT !.threads[co].top = M.threads[co].ci[Len(M.threads[co].ci)].base,
                                    !.threads[co].nCcalls = L(M).nCcalls]
auxresume(M, co, nargs, isWrap) ==
  CASE costatus(M, co) # "suspended" -> Resumed(M, isWrap, FALSE, <<Str("cannot resume coroutine")>>)
    [] costatus(M, co) = "suspended" /\ L(M).nCcalls >= LUAI_MAXCCALLS ->
         Resumed(resume_error(M, co, nargs), isWrap, FALSE, <<Str("C stack overflow")>>)
    [] OTHER -> lua_resume(MovedTo(Waiting(M, co, nargs), co, Slots(M, Top(M) - nargs, nargs)), nargs)

(* Back in the stack that has resumed. *)
BackTo(M, x) ==
  Protects([M EXCEPT !.threads[x.co].nCcalls = @ - 1, !.cur = x.from, !.caught = <<>>], FALSE)
BackFrom(M, n) == BackTo(SetTop(M, Top(M) - n), CTop(M).x)
Stage1(M, isWrap) ==
  Resumed(lua_assert(BackFrom(M, NArgs(M)), L(M).nCcalls = L(M).baseCcalls, "C calls of a coroutine"),
          isWrap, TRUE, Slots(M, L(M).base, NArgs(M)))
ResumeCaught(M) ==
  Resumed(BackFrom([M EXCEPT !.threads[M.cur].status = "error"], 0), CTop(M).f = "auxwrap", FALSE,
          <<ErrorObject(M.caught[1], M.caught[2])>>)

luaB_coresume(M) ==
  IF CTop(M).stage = 1 THEN Stage1(M, FALSE)
  ELSE IF ~IsThread(Arg(M, 1)) THEN BadArg(M)
  ELSE auxresume(M, Arg(M, 1)[2], NArgs(M) - 1, FALSE)
auxwrap(M) == IF CTop(M).stage = 1 THEN Stage1(M, TRUE)
              ELSE auxresume(M, CTop(M).upval[2], NArgs(M), TRUE)

(* lua_yield: all that ran since the resume leaves the C stack; the Lua    *)
(* stack stays.                                                            *)
luaB_yield(M) ==
  LET resumes == {j \in DOMAIN M.C : M.C[j].k = "C" /\ M.C[j].f \in {"coresume", "auxwrap"} /\ M.C[j].stage = 1}
      r == CHOOSE j \in resumes : \A k \in resumes : k <= j
  IN IF L(M).nCcalls > L(M).baseCcalls
     THEN luaG_runerror(M, "attempt to yield across metamethod/C-call boundary")
     ELSE [M EXCEPT !.threads[M.cur].base = Top(M) - NArgs(M),
                    !.threads[M.cur].status = "yield", !.C = SubSeq(@, 1, r)]

--------------------------------------------------------------------------------
(* Tables as lists. *)
getn(M) == luaH_getn(ArgTable(M))
(* t[i] = t[i - step], and so on up to "to", which is left alone.          *)
RECURSIVE Shifted(_, _, _, _, _)
Shifted(M, t, i, to, step) ==
  IF i = to THEN M ELSE Shifted(rawseti(M, t, i, rawgeti(M, t, i - step)), t, i - step, to, step)
InsertedAt(M, t, e, pos) ==
  rawseti(Shifted(M, t, IF pos > e THEN pos ELSE e, pos, 1), t, pos, Arg(M, NArgs(M)))
tinsert(M) ==
  LET e == getn(M) + 1
  IN CASE ~IsTable(Arg(M, 1)) -> BadArg(M)
       [] NArgs(M) \notin {2, 3} -> luaG_runerror(M, "wrong number of arguments to 'insert'")
       [] OTHER -> Return(InsertedAt(M, Arg(M, 1)[2], e, IF NArgs(M) = 2 THEN e ELSE OptInt(M, 2, e)), <<>>)
RemovedAt(M, t, e, pos) ==
  IF pos < 1 \/ e < pos THEN Return(M, <<>>)
  ELSE Return(rawseti(Shifted(M, t, pos, e, -1), t, e, Nil), <<rawgeti(M, t, pos)>>)
tremove(M) ==
  Checked(M, IsTable(Arg(M, 1)), RemovedAt(M, Arg(M, 1)[2], getn(M), OptInt(M, 2, getn(M))))
TableItem(M, i) == rawgeti(M, Arg(M, 1)[2], i)
RECURSIVE Concatenated(_, _, _, _)
Concatenated(M, sep, i, last) ==
  IF i > last THEN ""
  ELSE luaV_tostring(TableItem(M, i))[2] \o (IF i < last THEN sep ELSE "") \o Concatenated(M, sep, i + 1, last)
ConcatItems(M, sep, first, last) ==
  IF \E i \in first .. last : ~IsText(TableItem(M, i))
  THEN luaG_runerror(M, "invalid value in table for 'concat'")
  ELSE Return(M, <<Str(Concatenated(M, sep, first, last))>>)
tconcat(M) ==
  Checked(M, IsTable(Arg(M, 1)),
          ConcatItems(M, IF Arg(M, 2) = Nil THEN "" ELSE Arg(M, 2)[2], OptInt(M, 3, 1), OptInt(M, 4, getn(M))))

(* A function for each item of a list, or of a table, until one answers.   *)
AskedFor(M, x, entry) ==
  luaD_call(Push(AtStage(M, 1, x), <<Arg(M, 2)>> \o entry), Top(M), 1)
ForIndex(M, i, n) == IF i > n THEN ReturnC(M, 0) ELSE AskedFor(M, [i |-> i, n |-> n], <<Num(i), TableItem(M, i)>>)
foreachi(M) ==
  IF CTop(M).stage = 0
  THEN Checked(M, IsTable(Arg(M, 1)) /\ IsFunction(Arg(M, 2)), ForIndex(M, 1, getn(M)))
  ELSE IF Slot(M, Top(M) - 1) # Nil THEN ReturnC(M, 1)
  ELSE ForIndex(SetTop(M, Top(M) - 1), CTop(M).x.i + 1, CTop(M).x.n)
ForEntry(M, entry) ==
  IF entry = <<Nil>> THEN ReturnC(SetTop(M, Top(M) - 1), 0)
  ELSE AskedFor(Push(SetTop(M, Top(M) - 1), entry), <<>>, entry)
ForNext(M, key) ==
  IF findindex(ArgTable(M), key) = -1 THEN luaG_runerror(M, "invalid key to 'next'")
  ELSE ForEntry(M, luaH_next(ArgTable(M), key))
foreach(M) ==
  IF CTop(M).stage = 0
  THEN Checked(M, IsTable(Arg(M, 1)) /\ IsFunction(Arg(M, 2)), ForNext(Push(M, <<Nil>>), Nil))
  ELSE IF Slot(M, Top(M) - 1) # Nil THEN ReturnC(M, 1)
  ELSE ForNext(SetTop(M, Top(M) - 2), Slot(M, Top(M) - 3))
NumbersIn(t) == {k[2] : k \in {key \in Keys(t) : IsNumber(key) /\ luaH_get(t, key) # Nil}}
maxn(M) ==
  Checked(M, IsTable(Arg(M, 1)),
          Return(M, <<Num(CHOOSE n \in NumbersIn(ArgTable(M)) \cup {0} :
                            \A m \in NumbersIn(ArgTable(M)) \cup {0} : m <= n)>>))

(* Quicksort.  x has the parts still to be sorted, the innermost last, and *)
(* the variables of auxsort; ai, aj are the elements on the Lua stack.     *)
(* A comparison leaves its answer there.                                   *)
Asked(M, v, w, f, byOrder) ==
  CASE byOrder -> Push(M, <<Bool(Less(v, w))>>)
    [] f = Nil -> luaG_runerror(M, "attempt to compare")
    [] OTHER -> luaD_call(Push(M, <<f, v, w>>), Top(M), 1)
Comparer(M, v, w) ==
  IF Arg(M, 2) # Nil THEN Arg(M, 2) ELSE IF type(v) = type(w) THEN OrderTM(M, v, w, "lt") ELSE Nil
sort_comp(M, stage, x, v, w) ==
  Asked(AtStage(M, stage, x), v, w, Comparer(M, v, w), Arg(M, 2) = Nil /\ Ordered(v, w))
set2(M, i, vi, j, vj) == rawseti(rawseti(M, Arg(M, 1)[2], i, vi), Arg(M, 1)[2], j, vj)

(* The parts of two elements or more. *)
RECURSIVE Unsorted(_)
Unsorted(work) ==
  IF work # <<>> /\ Last(work)[1] >= Last(work)[2] THEN Unsorted(Front(work)) ELSE work
SortPart(M, work, l, u, al, au) ==
  sort_comp(M, 1, [work |-> work, l |-> l, u |-> u, i |-> l, j |-> u, P |-> Nil, ai |-> al, aj |-> au], au, al)
SortNext(M, work) ==
  IF work = <<>> THEN Return(M, <<>>)
  ELSE SortPart(M, work, Last(work)[1], Last(work)[2],
                TableItem(M, Last(work)[1]), TableItem(M, Last(work)[2]))
SortRest(M, x, parts) == SortNext(M, Unsorted(Front(x.work) \o parts))
(* ++i, --j, and the comparison with the pivot. *)
CompareUp(M, x, v) == sort_comp(M, 4, [x EXCEPT !.i = @ + 1, !.ai = v], v, x.P)
SortUp(M, x) == CompareUp(M, x, TableItem(M, x.i + 1))
CompareDown(M, x, v) == sort_comp(M, 5, [x EXCEPT !.j = @ - 1, !.aj = v], x.P, v)
SortDown(M, x) == CompareDown(M, x, TableItem(M, x.j - 1))
(* The three elements are in order: the middle one is the pivot. *)
WithPivot(M, x, mid, v) ==
  SortUp(set2(M, mid, TableItem(M, x.u - 1), x.u - 1, v), [x EXCEPT !.P = v, !.i = x.l, !.j = x.u - 1])
Middle(x) == (x.l + x.u) \div 2
Pivot(M, x) == IF x.u - x.l = 2 THEN SortRest(M, x, <<>>) ELSE WithPivot(M, x, Middle(x), TableItem(M, Middle(x)))
(* The pivot in its place, the smaller half first. *)
PivotPlaced(M, x, at) == set2(M, at, TableItem(M, x.i), x.i, TableItem(M, x.u - 1))
BothHalves(x, low, high) == IF x.i - x.l < x.u - x.i THEN <<high, low>> ELSE <<low, high>>
HalvesOf(M, x, at) == SortRest(PivotPlaced(M, x, at), x, BothHalves(x, <<x.l, x.i - 1>>, <<x.i + 1, x.u>>))
(* A mutant: the pivot is looked for at the end. *)
HalvesAtEnd(M, x) == HalvesOf(M, x, x.u)
Halves(M, x) == HalvesOf(M, x, x.u - 1)

SortStarted(M) ==
  SortNext(SetTop(SetSlot(M, L(M).base + 1, Arg(M, 2)), L(M).base + 2), Unsorted(<<<<1, getn(M)>>>>))
(* The comparison of a[l] and a[u] is done, of a[mid] and a[l], of a[u]    *)
(* and a[mid].                                                             *)
Sort3(M, x, mid, v, w, stage) == sort_comp(M, stage, [x EXCEPT !.ai = w, !.aj = v], v, w)
EndsDone(M, x) ==
  IF x.u - x.l = 1 THEN SortRest(M, x, <<>>)
  ELSE Sort3(M, x, Middle(x), TableItem(M, Middle(x)), TableItem(M, x.l), 2)
LowDone(M, x, yes) ==
  IF yes THEN Pivot(set2(M, Middle(x), x.ai, x.l, x.aj), x)
  ELSE Sort3(M, x, Middle(x), TableItem(M, x.u), x.aj, 3)
UpDone(M, x, yes) ==
  CASE ~yes -> SortDown(M, x)
    [] yes /\ x.i > x.u -> luaG_runerror(M, "invalid order function for sorting")
    [] OTHER -> SortUp(M, x)
DownDone(M, x, yes) ==
  CASE yes /\ x.j < x.l -> luaG_runerror(M, "invalid order function for sorting")
    [] yes /\ x.j >= x.l -> SortDown(M, x)
    [] ~yes /\ x.j < x.i -> Halves(M, x)
    [] OTHER -> SortUp(set2(M, x.i, x.aj, x.j, x.ai), x)
Sorted(M, x, yes, stage) ==
  CASE stage = 1 -> EndsDone(IF yes THEN set2(M, x.l, x.aj, x.u, x.ai) ELSE M, x)
    [] stage = 2 -> LowDone(M, x, yes)
    [] stage = 3 -> Pivot(IF yes THEN set2(M, Middle(x), x.aj, x.u, x.ai) ELSE M, x)
    [] stage = 4 -> UpDone(M, x, yes)
    [] stage = 5 -> DownDone(M, x, yes)
sort(M) ==
  IF CTop(M).stage = 0
  THEN Checked(M, IsTable(Arg(M, 1)) /\ (Arg(M, 2) = Nil \/ IsFunction(Arg(M, 2))), SortStarted(M))
  ELSE Sorted(SetTop(M, Top(M) - 1), CTop(M).x, ~IsFalse(Slot(M, Top(M) - 1)), CTop(M).stage)
================================================================================
