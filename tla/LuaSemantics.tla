------------------------------ MODULE LuaSemantics ------------------------------
(***************************************************************************)
(* What a Lua program means: the language as its syntax trees are read,    *)
(* with no compiler, registers or stack.  It is what the compiler of       *)
(* LuaParser and the machine of LuaVM are compared with.                   *)
(*                                                                         *)
(* Expressions are tuples <<"num", n>>, <<"str", s>>, <<"nil">>,           *)
(* <<"true">>, <<"false">>, <<"...">>, <<"name", x>>, <<"index", e, k>>,   *)
(* <<"call", f, args>>, <<"method", e, name, args>>, <<"fun", params,      *)
(* vararg, block>>, <<"bin", op, e1, e2>>, <<"un", op, e>>, <<"paren", e>> *)
(* and <<"table", fields>>, a field being <<e>> or <<k, e>>.  Statements   *)
(* are <<"local", names, es>>, <<"localfun", name, fun>>, <<"assign", lhs, *)
(* es>>, <<"call", f, args>>, <<"do", b>>, <<"while", e, b>>, <<"repeat",  *)
(* b, e>>, <<"if", <<<<e, b>>, ...>>, b>>, <<"for", x, es, b>>, <<"forin", *)
(* xs, es, b>>, <<"return", es>> and <<"break">>.                          *)
(***************************************************************************)
EXTENDS LuaOpcodes, FiniteSets
LOCAL INSTANCE TLC

--------------------------------------------------------------------------------
(* The text of a program, as its tokens: with the parentheses that the     *)
(* precedence of operators makes necessary, and no other.                  *)
T(t) == <<[t |-> t, v |-> "", l |-> 1]>>
TV(t, v) == <<[t |-> t, v |-> v, l |-> 1]>>
Binary == [o \in {"+", "-", "*", "/", "%", "^", "..", "~=", "==", "<", "<=", ">", ">=", "and", "or"} |->
  CASE o = "or" -> 1 [] o = "and" -> 2 [] o \in {"<", "<=", ">", ">=", "==", "~="} -> 3
    [] o = ".." -> 4 [] o \in {"+", "-"} -> 5 [] o \in {"*", "/", "%"} -> 6 [] o = "^" -> 8]
Prec(e) == CASE e[1] = "bin" -> Binary[e[2]] [] e[1] = "un" -> 7 [] OTHER -> 9
RightAssoc == {"..", "^"}
IsPrefix(e) == e[1] \in {"name", "index", "call", "method", "paren"}

RECURSIVE TextE(_), TextEs(_), TextS(_), TextB(_), TextFields(_), TextIfs(_), TextNames(_)
Paren(e) == T("(") \o TextE(e) \o T(")")
TextIf(e, cond) == IF cond THEN TextE(e) ELSE Paren(e)
TextFun(params, vararg, b) ==
  T("(") \o TextNames(params)
    \o (IF vararg THEN (IF params = <<>> THEN <<>> ELSE T(",")) \o T("...") ELSE <<>>)
    \o T(")") \o TextB(b) \o T("end")
TextE(e) ==
  CASE e[1] = "num" -> TV("NUMBER", e[2])
    [] e[1] = "str" -> TV("STRING", e[2])
    [] e[1] = "name" -> TV("NAME", e[2])
    [] e[1] = "index" -> TextIf(e[2], IsPrefix(e[2])) \o T("[") \o TextE(e[3]) \o T("]")
    [] e[1] = "call" -> TextIf(e[2], IsPrefix(e[2])) \o T("(") \o TextEs(e[3]) \o T(")")
    [] e[1] = "method" -> TextIf(e[2], IsPrefix(e[2])) \o T(":") \o TV("NAME", e[3])
                            \o T("(") \o TextEs(e[4]) \o T(")")
    [] e[1] = "fun" -> T("function") \o TextFun(e[2], e[3], e[4])
    [] e[1] = "un" -> T(e[2]) \o TextIf(e[3], Prec(e[3]) >= 7)
    [] e[1] = "bin" ->
         LET p == Binary[e[2]]
             right == e[2] \in RightAssoc
         IN TextIf(e[3], Prec(e[3]) > p \/ (Prec(e[3]) = p /\ ~right)) \o T(e[2])
              \o TextIf(e[4], Prec(e[4]) > p \/ (Prec(e[4]) = p /\ right)
                              \/ (e[2] = "^" /\ e[4][1] = "un"))
    [] e[1] = "paren" -> Paren(e[2])
    [] e[1] = "table" -> T("{") \o TextFields(e[2]) \o T("}")
    [] OTHER -> T(e[1])
TextEs(es) == IF es = <<>> THEN <<>>
              ELSE TextE(es[1]) \o (IF Len(es) > 1 THEN T(",") ELSE <<>>) \o TextEs(Tail(es))
TextNames(xs) == IF xs = <<>> THEN <<>>
                 ELSE TV("NAME", xs[1]) \o (IF Len(xs) > 1 THEN T(",") ELSE <<>>) \o TextNames(Tail(xs))
TextFields(fs) ==
  IF fs = <<>> THEN <<>>
  ELSE (IF Len(fs[1]) = 1 THEN TextE(fs[1][1])
        ELSE T("[") \o TextE(fs[1][1]) \o T("]") \o T("=") \o TextE(fs[1][2]))
       \o T(",") \o TextFields(Tail(fs))
TextIfs(cs) ==
  T("if") \o TextE(cs[1][1]) \o T("then") \o TextB(cs[1][2])
    \o (IF Len(cs) = 1 THEN <<>>
        ELSE [TextIfs(Tail(cs)) EXCEPT ![1] = T("elseif")[1]])
TextS(s) ==
  CASE s[1] = "local" -> T("local") \o TextNames(s[2])
                           \o (IF s[3] = <<>> THEN <<>> ELSE T("=") \o TextEs(s[3]))
    [] s[1] = "localfun" -> T("local") \o T("function") \o TV("NAME", s[2])
                              \o TextFun(s[3][2], s[3][3], s[3][4])
    [] s[1] = "assign" -> TextEs(s[2]) \o T("=") \o TextEs(s[3])
    [] s[1] = "do" -> T("do") \o TextB(s[2]) \o T("end")
    [] s[1] = "while" -> T("while") \o TextE(s[2]) \o T("do") \o TextB(s[3]) \o T("end")
    [] s[1] = "repeat" -> T("repeat") \o TextB(s[2]) \o T("until") \o TextE(s[3])
    [] s[1] = "if" -> TextIfs(s[2]) \o (IF s[3] = <<>> THEN <<>> ELSE T("else") \o TextB(s[3])) \o T("end")
    [] s[1] = "for" -> T("for") \o TV("NAME", s[2]) \o T("=") \o TextEs(s[3])
                         \o T("do") \o TextB(s[4]) \o T("end")
    [] s[1] = "forin" -> T("for") \o TextNames(s[2]) \o T("in") \o TextEs(s[3])
                           \o T("do") \o TextB(s[4]) \o T("end")
    [] s[1] = "return" -> T("return") \o TextEs(s[2])
    [] s[1] = "break" -> T("break")
    [] OTHER -> TextE(s)
TextB(b) == IF b = <<>> THEN <<>> ELSE TextS(b[1]) \o T(";") \o TextB(Tail(b))
Text(program) == TextB(program) \o T("EOS")

--------------------------------------------------------------------------------
(* The meaning of a program.  A state has the cells of variables, tables   *)
(* as lists of pairs, functions, what was printed, what happens to the     *)
(* control ("go", "break", "return", "error") and values v: the ones of    *)
(* the last expression, of a return or of an error.  An environment has    *)
(* the cells of the names n, and the values of "...".                      *)
Go(S) == S.ctl = "go"
Yields(S, vals) == [S EXCEPT !.v = vals]
Fails(S, val) == [S EXCEPT !.ctl = "error", !.v = <<val>>]
FailsWith(S, text) == Fails(S, Str(text))
One(S) == IF S.v = <<>> THEN Nil ELSE S.v[1]
At(vals, j) == IF j <= Len(vals) THEN vals[j] ELSE Nil
TypeOf(v) == CASE v[1] = "num" -> "number" [] v[1] = "str" -> "string" [] v[1] = "bool" -> "boolean"
               [] OTHER -> v[1]

Pairs(S, t) == S.tables[t].kv
Place(S, t, k) == {j \in DOMAIN Pairs(S, t) : Pairs(S, t)[j][1] = k}
RawGet(S, t, k) == IF Place(S, t, k) = {} THEN Nil
                   ELSE Pairs(S, t)[CHOOSE j \in Place(S, t, k) : TRUE][2]
RawSet(S, t, k, val) ==
  IF Place(S, t, k) = {} THEN [S EXCEPT !.tables[t].kv = Append(@, <<k, val>>)]
  ELSE [S EXCEPT !.tables[t].kv[CHOOSE j \in Place(S, t, k) : TRUE][2] = val]
Border(S, t) == CHOOSE n \in 0 .. Len(Pairs(S, t)) :
                  RawGet(S, t, Num(n + 1)) = Nil /\ \A i \in 1 .. n : RawGet(S, t, Num(i)) # Nil
MetaOf(S, v, event) ==
  IF v[1] # "table" \/ S.tables[v[2]].mt = 0 THEN Nil ELSE RawGet(S, S.tables[v[2]].mt, Str("__" \o event))
AsText(v) == IF IsNumber(v) THEN Str(ToString(v[2])) ELSE v
IsTextual(v) == IsNumber(v) \/ IsString(v)
NewCells(S, env, names, vals) ==
  [s |-> [S EXCEPT !.cells = @ \o [j \in DOMAIN names |-> At(vals, j)]],
   e |-> [env EXCEPT !.n = [x \in DOMAIN @ \cup {names[j] : j \in DOMAIN names} |->
            IF \E j \in DOMAIN names : names[j] = x
            THEN Len(S.cells) + CHOOSE j \in DOMAIN names :
                                  names[j] = x /\ \A k \in DOMAIN names : names[k] = x => k <= j
            ELSE @[x]]]]

RECURSIVE Ev(_, _, _), Evs(_, _, _), Run(_, _, _), CallV(_, _, _), Index(_, _, _), SetIndex(_, _, _, _),
          Loop(_, _, _, _), Assign(_, _, _, _), Places(_, _, _), Fields(_, _, _, _, _), Insert(_, _, _, _)

Index(S, t, k) ==
  LET raw == RawGet(S, t[2], k)
      h == MetaOf(S, t, "index")
  IN IF t[1] # "table" THEN FailsWith(S, "attempt to index")
     ELSE IF raw # Nil \/ h = Nil THEN Yields(S, <<raw>>)
     ELSE IF h[1] = "function" THEN CallV(S, h, <<t, k>>) ELSE Index(S, h, k)
SetIndex(S, t, k, val) ==
  LET h == MetaOf(S, t, "newindex")
  IN IF t[1] # "table" THEN FailsWith(S, "attempt to index")
     ELSE IF k = Nil THEN FailsWith(S, "table index is nil")
     ELSE IF RawGet(S, t[2], k) # Nil \/ h = Nil THEN RawSet(S, t[2], k, val)
     ELSE IF h[1] = "function" THEN CallV(S, h, <<t, k, val>>) ELSE SetIndex(S, h, k, val)

(* The metamethod of the first operand, or else of the second. *)
Meta2(S, a, b, event) == IF MetaOf(S, a, event) # Nil THEN MetaOf(S, a, event) ELSE MetaOf(S, b, event)
OpName == [o \in {"+", "-", "*", "/", "%", "^"} |->
  CASE o = "+" -> <<"ADD", "add">> [] o = "-" -> <<"SUB", "sub">> [] o = "*" -> <<"MUL", "mul">>
    [] o = "/" -> <<"DIV", "div">> [] o = "%" -> <<"MOD", "mod">> [] o = "^" -> <<"POW", "pow">>]
MetaCall(S, h, a, b, what) ==
  IF h = Nil THEN FailsWith(S, "attempt to " \o what) ELSE CallV(S, h, <<a, b>>)
Truth(S) == Yields(S, <<Bool(~IsFalse(One(S)))>>)
Not(S) == Yields(S, <<Bool(IsFalse(One(S)))>>)
Same(S, a, b, event) == MetaOf(S, a, event) # Nil /\ MetaOf(S, a, event) = MetaOf(S, b, event)
LessThan(S, a, b) ==
  IF IsNumber(a) /\ IsNumber(b) THEN Yields(S, <<Bool(a[2] < b[2])>>)
  ELSE IF IsString(a) /\ IsString(b) THEN Yields(S, <<Bool(StringLess(a[2], b[2]))>>)
  ELSE IF Same(S, a, b, "lt") THEN Truth(CallV(S, MetaOf(S, a, "lt"), <<a, b>>))
  ELSE FailsWith(S, "attempt to compare")
LessEqual(S, a, b) ==
  IF IsTextual(a) THEN LET A == LessThan(S, b, a) IN IF Go(A) THEN Not(A) ELSE A
  ELSE IF Same(S, a, b, "le") THEN Truth(CallV(S, MetaOf(S, a, "le"), <<a, b>>))
  ELSE LET A == LessThan(S, b, a) IN IF Go(A) THEN Not(A) ELSE A
Equal(S, a, b) ==
  IF a # b /\ a[1] = "table" /\ Same(S, a, b, "eq") THEN Truth(CallV(S, MetaOf(S, a, "eq"), <<a, b>>))
  ELSE Yields(S, <<Bool(a = b)>>)
Binop(S, o, a, b) ==
  CASE o \in DOMAIN OpName ->
         IF IsNumber(a) /\ IsNumber(b) THEN Yields(S, <<Num(Arith(OpName[o][1], a[2], b[2]))>>)
         ELSE MetaCall(S, Meta2(S, a, b, OpName[o][2]), a, b, "perform arithmetic on")
    [] o = ".." -> IF IsTextual(a) /\ IsTextual(b) THEN Yields(S, <<Str(AsText(a)[2] \o AsText(b)[2])>>)
                   ELSE MetaCall(S, Meta2(S, a, b, "concat"), a, b, "concatenate")
    [] o = "==" -> Equal(S, a, b)
    [] o = "~=" -> LET A == Equal(S, a, b) IN IF Go(A) THEN Not(A) ELSE A
    [] o = "<" -> LessThan(S, a, b)
    [] o = ">" -> LessThan(S, b, a)
    [] o = "<=" -> LessEqual(S, a, b)
    [] o = ">=" -> LessEqual(S, b, a)
Unop(S, o, a) ==
  CASE o = "not" -> Yields(S, <<Bool(IsFalse(a))>>)
    [] o = "-" -> IF IsNumber(a) THEN Yields(S, <<Num(-a[2])>>)
                  ELSE MetaCall(S, MetaOf(S, a, "unm"), a, a, "perform arithmetic on")
    [] o = "#" -> IF a[1] = "table" THEN Yields(S, <<Num(Border(S, a[2]))>>)
                  ELSE IF IsString(a) THEN Yields(S, <<Num(Len(a[2]))>>)
                  ELSE FailsWith(S, "attempt to get length of")

--------------------------------------------------------------------------------
(* Expressions.  All values of the last of a list are taken, one of any    *)
(* other.                                                                  *)
Then1(A, B) == IF Go(A) THEN B ELSE A
Evs(S, env, es) ==
  IF es = <<>> THEN Yields(S, <<>>)
  ELSE LET A == Ev(S, env, es[1])
           B == Evs(A, env, Tail(es))
       IN IF ~Go(A) \/ Len(es) = 1 THEN A
          ELSE IF Go(B) THEN Yields(B, <<One(A)>> \o B.v) ELSE B
Ev(S, env, e) ==
  LET A == Ev(S, env, e[2])
      A3 == Ev(S, env, e[3])
  IN
  CASE e[1] = "num" -> Yields(S, <<Num(e[2])>>)
    [] e[1] = "str" -> Yields(S, <<Str(e[2])>>)
    [] e[1] = "nil" -> Yields(S, <<Nil>>)
    [] e[1] = "true" -> Yields(S, <<Bool(TRUE)>>)
    [] e[1] = "false" -> Yields(S, <<Bool(FALSE)>>)
    [] e[1] = "..." -> Yields(S, env.va)
    [] e[1] = "name" -> IF e[2] \in DOMAIN env.n THEN Yields(S, <<S.cells[env.n[e[2]]]>>)
                        ELSE LET B == Index(S, <<"table", 1>>, Str(e[2])) IN Yields(B, <<One(B)>>)
    [] e[1] = "index" ->
         LET B == Ev(A, env, e[3])
             C == Index(B, One(A), One(B))
         IN Then1(A, Then1(B, Yields(C, <<One(C)>>)))
    [] e[1] = "call" -> LET B == Evs(A, env, e[3]) IN Then1(A, Then1(B, CallV(B, One(A), B.v)))
    [] e[1] = "method" ->
         LET F == Index(A, One(A), Str(e[3]))
             B == Evs(F, env, e[4])
         IN Then1(A, Then1(F, Then1(B, CallV(B, One(F), <<One(A)>> \o B.v))))
    [] e[1] = "fun" -> Yields([S EXCEPT !.funs = Append(@, [fun |-> e, env |-> env])],
                              <<<<"function", Len(S.funs) + 1>>>>)
    [] e[1] = "un" -> LET B == Unop(A3, e[2], One(A3)) IN Then1(A3, Then1(B, Yields(B, <<One(B)>>)))
    [] e[1] = "bin" /\ e[2] = "and" -> IF ~Go(A3) \/ IsFalse(One(A3)) THEN Yields(A3, <<One(A3)>>)
                                       ELSE LET B == Ev(A3, env, e[4]) IN Yields(B, <<One(B)>>)
    [] e[1] = "bin" /\ e[2] = "or" -> IF ~Go(A3) \/ ~IsFalse(One(A3)) THEN Yields(A3, <<One(A3)>>)
                                      ELSE LET B == Ev(A3, env, e[4]) IN Yields(B, <<One(B)>>)
    [] e[1] = "bin" ->
         LET B == Ev(A3, env, e[4])
             C == Binop(B, e[2], One(A3), One(B))
         IN Then1(A3, Then1(B, Yields(C, <<One(C)>>)))
    [] e[1] = "paren" -> Yields(A, <<One(A)>>)
    [] e[1] = "table" ->
         Fields([S EXCEPT !.tables = Append(@, [kv |-> <<>>, mt |-> 0])], env, e[2], Len(S.tables) + 1, 1)
(* Fields of table t; the next one without a key gets key n. *)
Fields(S, env, fs, t, n) ==
  LET A == Ev(S, env, fs[1][1])
      B == Ev(A, env, fs[1][2])
      k == One(A)
      many == IF Len(fs) = 1 THEN A.v ELSE <<One(A)>>
  IN IF fs = <<>> THEN Yields(S, <<<<"table", t>>>>)
     ELSE IF ~Go(A) THEN A
     ELSE IF Len(fs[1]) = 1 THEN Fields(Insert(A, t, n, many), env, Tail(fs), t, n + 1)
     ELSE IF ~Go(B) THEN B
     ELSE Fields(RawSet(B, t, k, One(B)), env, Tail(fs), t, n)
Insert(S, t, n, vals) == IF vals = <<>> THEN S ELSE Insert(RawSet(S, t, Num(n), vals[1]), t, n + 1, Tail(vals))

(* A call: of a function, of one of the library, or of what has "call". *)
Shown(v) == IF v[1] \in {"table", "function", "thread"} THEN <<v[1]>> ELSE v
RECURSIVE Ordering(_, _, _, _, _)
Builtin(S, name, args) ==
  LET a == At(args, 1)
      b == At(args, 2)
      P == CallV(S, a, Tail(args))
      next == {j \in DOMAIN Pairs(S, a[2]) : Pairs(S, a[2])[j][2] # Nil
                 /\ \A i \in Place(S, a[2], b) : i < j}
      first == CHOOSE j \in next : \A i \in next : j <= i
  IN
  CASE name = "emit" -> Yields([S EXCEPT !.out = Append(@, [j \in DOMAIN args |-> Shown(args[j])])], <<>>)
    [] name = "error" -> Fails(S, AsText(a))
    [] name = "assert" -> IF IsFalse(a) THEN FailsWith(S, "assertion failed!") ELSE Yields(S, args)
    [] name = "pcall" -> IF P.ctl = "error" THEN [P EXCEPT !.ctl = "go", !.v = <<Bool(FALSE)>> \o @]
                         ELSE Yields(P, <<Bool(TRUE)>> \o P.v)
    [] name = "type" -> Yields(S, <<Str(TypeOf(a))>>)
    [] name = "rawequal" -> Yields(S, <<Bool(a = b)>>)
    [] name = "rawget" -> Yields(S, <<RawGet(S, a[2], b)>>)
    [] name = "rawset" -> Yields(RawSet(S, a[2], b, args[3]), <<a>>)
    [] name = "setmetatable" ->
         IF MetaOf(S, a, "metatable") # Nil THEN FailsWith(S, "cannot change a protected metatable")
         ELSE Yields([S EXCEPT !.tables[a[2]].mt = IF b = Nil THEN 0 ELSE b[2]], <<a>>)
    [] name = "getmetatable" ->
         Yields(S, <<IF MetaOf(S, a, "metatable") # Nil THEN MetaOf(S, a, "metatable")
                     ELSE IF a[1] # "table" \/ S.tables[a[2]].mt = 0 THEN Nil
                     ELSE <<"table", S.tables[a[2]].mt>>>>)
    [] name = "next" -> Yields(S, IF next = {} THEN <<Nil>> ELSE Pairs(S, a[2])[first])
    [] name = "pairs" -> Yields(S, <<RawGet(S, 1, Str("next")), a, Nil>>)
    [] name = "unpack" -> Yields(S, [j \in 1 .. Border(S, a[2]) |-> RawGet(S, a[2], Num(j))])
    [] name = "select" ->
         IF a = Str("#") THEN Yields(S, <<Num(Len(args) - 1)>>)
         ELSE Yields(S, SubSeq(Tail(args), IF a[2] < 0 THEN Len(args) + a[2] ELSE a[2], Len(args) - 1))
    [] name = "sort" -> Ordering(S, a[2], b, 2, 2)
(* A list in its order: item j is put where it belongs among the first i.  *)
Ordering(S, t, less, i, j) ==
  LET x == RawGet(S, t, Num(j - 1))
      y == RawGet(S, t, Num(j))
      C == IF less = Nil THEN LessThan(S, y, x) ELSE CallV(S, less, <<y, x>>)
      swapped == RawSet(RawSet(C, t, Num(j - 1), y), t, Num(j), x)
  IN IF i > Border(S, t) THEN Yields(S, <<>>)
     ELSE IF j = 1 THEN Ordering(S, t, less, i + 1, i + 1)
     ELSE IF ~Go(C) THEN C
     ELSE IF IsFalse(One(C)) THEN Ordering(C, t, less, i + 1, i + 1)
     ELSE Ordering(swapped, t, less, i, j - 1)

CallV(S, f, args) ==
  LET h == MetaOf(S, f, "call")
      F == S.funs[f[2]]
      params == F.fun[2]
      C == NewCells(S, [F.env EXCEPT !.va = IF F.fun[3] THEN SubSeq(args, Len(params) + 1, Len(args)) ELSE <<>>],
                    params, args)
      B == Run(C.s, C.e, F.fun[4])
  IN IF f[1] # "function"
     THEN IF h = Nil THEN FailsWith(S, "attempt to call") ELSE CallV(S, h, <<f>> \o args)
     ELSE IF "builtin" \in DOMAIN F THEN Builtin(S, F.builtin, args)
     ELSE CASE B.ctl = "return" -> [B EXCEPT !.ctl = "go"]
            [] B.ctl = "go" -> Yields(B, <<>>)
            [] OTHER -> B

--------------------------------------------------------------------------------
(* Statements. *)
EndLoop(S) == IF S.ctl = "break" THEN [S EXCEPT !.ctl = "go"] ELSE S
(* Where values are assigned: <<name>> or <<table, key>>. *)
Places(S, env, lhs) ==
  LET e == lhs[1]
      A == Ev(S, env, e[2])
      B == Ev(A, env, e[3])
      R == Places(IF e[1] = "name" THEN S ELSE B, env, Tail(lhs))
      place == IF e[1] = "name" THEN <<e[2]>> ELSE <<One(A), One(B)>>
  IN IF lhs = <<>> THEN Yields(S, <<>>)
     ELSE IF e[1] # "name" /\ ~Go(A) THEN A
     ELSE IF e[1] # "name" /\ ~Go(B) THEN B
     ELSE IF Go(R) THEN Yields(R, <<place>> \o R.v) ELSE R
(* From the last to the first. *)
Assign(S, env, places, vals) ==
  LET n == Len(places)
      p == places[n]
      val == At(vals, n)
      A == IF Len(p) = 2 THEN SetIndex(S, p[1], p[2], val)
           ELSE IF p[1] \in DOMAIN env.n THEN [S EXCEPT !.cells[env.n[p[1]]] = val]
           ELSE SetIndex(S, <<"table", 1>>, Str(p[1]), val)
  IN IF n = 0 THEN S ELSE Then1(A, Assign(A, env, SubSeq(places, 1, n - 1), vals))

(* The rest of a loop; w is a while or repeat statement, or what is left   *)
(* of a for.                                                               *)
Loop(S, env, w, B) == IF ~Go(B) THEN EndLoop(B) ELSE Run(B, env, <<w>>)
Stmt(S, env, s) ==
  LET A == Ev(S, env, s[2])
      V == Evs(S, env, s[3])
      P == Places(S, env, s[2])
      W == Evs(P, env, s[3])
      v1 == V.v
  IN
  CASE s[1] = "assign" -> Then1(P, Then1(W, Assign(W, env, P.v, W.v)))
    [] s[1] = "do" -> Run(S, env, s[2])
    [] s[1] = "while" -> IF ~Go(A) \/ IsFalse(One(A)) THEN A ELSE Loop(A, env, s, Run(A, env, s[3]))
    [] s[1] = "repeat" -> Loop(S, env, s, Run(S, env, Append(s[2], <<"until", s[3]>>)))
    [] s[1] = "until" -> IF Go(A) /\ ~IsFalse(One(A)) THEN [A EXCEPT !.ctl = "break"] ELSE A
    [] s[1] = "if" ->
         IF s[2] = <<>> THEN Run(S, env, s[3])
         ELSE LET C == Ev(S, env, s[2][1][1])
              IN IF ~Go(C) THEN C
                 ELSE IF ~IsFalse(One(C)) THEN Run(C, env, s[2][1][2])
                 ELSE Run(C, env, <<<<"if", Tail(s[2]), s[3]>>>>)
    [] s[1] = "for" -> Then1(V, Run(V, env, <<<<"fornum", s[2], At(v1, 1), At(v1, 2),
                                                IF Len(v1) < 3 THEN Num(1) ELSE v1[3], s[4]>>>>))
    [] s[1] = "fornum" ->
         LET C == NewCells(S, env, <<s[2]>>, <<s[3]>>)
             up == s[5][2] > 0
         IN IF ~IsNumber(s[3]) THEN FailsWith(S, "'for' initial value must be a number")
            ELSE IF ~IsNumber(s[4]) THEN FailsWith(S, "'for' limit must be a number")
            ELSE IF ~(IF up THEN s[3][2] <= s[4][2] ELSE s[3][2] >= s[4][2]) THEN S
            ELSE Loop(S, env, [s EXCEPT ![3] = Num(@[2] + s[5][2])], Run(C.s, C.e, s[6]))
    [] s[1] = "forin" -> Then1(V, Run(V, env, <<<<"each", s[2], At(v1, 1), At(v1, 2), At(v1, 3), s[4]>>>>))
    [] s[1] = "each" ->
         LET N == CallV(S, s[3], <<s[4], s[5]>>)
             C == NewCells(N, env, s[2], N.v)
         IN IF ~Go(N) \/ One(N) = Nil THEN N
            ELSE Loop(S, env, [s EXCEPT ![5] = One(N)], Run(C.s, C.e, s[6]))
    [] s[1] = "return" -> LET R == Evs(S, env, s[2]) IN Then1(R, [R EXCEPT !.ctl = "return"])
    [] s[1] = "break" -> [S EXCEPT !.ctl = "break"]
    [] OTHER -> Ev(S, env, s)
Run(S, env, b) ==
  LET s == b[1]
      V == Evs(S, env, s[3])
      C == NewCells(V, env, s[2], V.v)
      D == NewCells(S, env, <<s[2]>>, <<>>)
      F == Ev(D.s, D.e, s[3])
      A == Stmt(S, env, s)
  IN IF b = <<>> THEN S
     ELSE IF s[1] = "local" THEN Then1(V, Run(C.s, C.e, Tail(b)))
     ELSE IF s[1] = "localfun" THEN Run([F EXCEPT !.cells[Len(D.s.cells)] = One(F)], D.e, Tail(b))
     ELSE Then1(A, Run(A, env, Tail(b)))

(* What a program prints, and how it ends. *)
Builtins == <<"emit", "error", "assert", "pcall", "type", "rawequal", "rawget", "rawset", "setmetatable",
              "getmetatable", "next", "pairs", "unpack", "select", "sort">>
Meaning(program) ==
  LET start == [cells |-> <<>>, ctl |-> "go", v |-> <<>>, out |-> <<>>,
                funs |-> [j \in DOMAIN Builtins |-> [builtin |-> Builtins[j]]],
                tables |-> <<[kv |-> [j \in DOMAIN Builtins |-> <<Str(Builtins[j]), <<"function", j>>>>],
                              mt |-> 0]>>]
      S == Run(start, [n |-> [x \in {} |-> 0], va |-> <<>>], program)
  IN [out |-> S.out, status |-> IF S.ctl = "error" THEN "error" ELSE "ok",
      err |-> IF S.ctl = "error" THEN Shown(One(S)) ELSE Nil]
================================================================================
