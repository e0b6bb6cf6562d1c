------------------------------- MODULE LuaParser -------------------------------
(***************************************************************************)
(* The Lua compiler: lparser.c, on the code generator of LuaCode.  It      *)
(* reads tokens [t, v, l]: what the token is, the name or value it has,    *)
(* and its line.                                                           *)
(***************************************************************************)
EXTENDS LuaCode, FiniteSets

CONSTANTS LUAI_MAXVARS, LUAI_MAXUPVALUES    \* 200, 60

Tok(S) == S.toks[S.pos].t
Val(S) == S.toks[S.pos].v
(* The line of the token that was read last, which may be the one ahead.   *)
Linenumber(S) == S.toks[S.pos + S.ahead].l
luaX_next(S) == [S EXCEPT !.lastline = Linenumber(S), !.ahead = 0,
                          !.pos = IF @ < Len(S.toks) THEN @ + 1 ELSE @]
luaX_lookahead(S) == [S EXCEPT !.ahead = 1]

hasmultret(k) == k \in {"VCALL", "VVARARG"}
Check(S, c) == IF Tok(S) = c THEN S ELSE Error(S, c \o " expected")
checknext(S, c) == IF Tok(S) = c THEN luaX_next(S) ELSE Error(S, c \o " expected")
checklimit(S, v, l, what) == IF v > l THEN Error(S, "more than limit: " \o what) ELSE S
(* The name that is read; in r. *)
str_checkname(S) == [checknext(S, "NAME") EXCEPT !.r = Val(S)]
codestring(S, s) == LET S1 == addk(S, Str(s)) IN WithExp(S1, Exp("VK", S1.r))
checkname(S) == codestring(checknext(S, "NAME"), Val(S))

--------------------------------------------------------------------------------
(* Local variables, upvalues and blocks. *)
Locvar(F, i) == F.actvar[i + 1] + 1

new_localvar(S0, name, n) ==
  LET S == checklimit(S0, S0.F.nactvar + n + 1, LUAI_MAXVARS, "local variables")
  IN [S EXCEPT !.F.actvar = SubSeq(@, 1, S.F.nactvar + n) \o <<Len(S.F.locvars)>>,
               !.F.locvars = Append(@, [varname |-> name, startpc |-> 0, endpc |-> 0])]

adjustlocalvars(S, nvars) ==
  LET new == {Locvar(S.F, i) : i \in S.F.nactvar .. S.F.nactvar + nvars - 1}
  IN [S EXCEPT !.F.nactvar = @ + nvars,
        !.F.locvars = [j \in DOMAIN @ |-> IF j \in new THEN [@[j] EXCEPT !.startpc = PC(S)] ELSE @[j]]]

removevars(S, tolevel) ==
  LET old == {Locvar(S.F, i) : i \in tolevel .. S.F.nactvar - 1}
  IN [S EXCEPT !.F.nactvar = tolevel,
        !.F.locvars = [j \in DOMAIN @ |-> IF j \in old THEN [@[j] EXCEPT !.endpc = PC(S)] ELSE @[j]]]

Greatest(T) == CHOOSE x \in T : \A y \in T : y <= x
searchvar(F, n) ==
  LET T == {i \in 0 .. F.nactvar - 1 : F.locvars[Locvar(F, i)].varname = n}
  IN IF T = {} THEN -1 ELSE Greatest(T)

(* A mutant: the first variable of a block is taken for one outside it.    *)
markupvalOutside(F, level) ==
  LET T == {j \in 1 .. Len(F.bl) : F.bl[j].nactvar < level}
  IN IF T = {} THEN F ELSE [F EXCEPT !.bl[Greatest(T)].upval = TRUE]
markupval(F, level) ==
  LET T == {j \in 1 .. Len(F.bl) : F.bl[j].nactvar <= level}
  IN IF T = {} THEN F ELSE [F EXCEPT !.bl[Greatest(T)].upval = TRUE]

(* The index of the upvalue that is variable v of the enclosing function.  *)
SameUpvalue(F, v) == {i \in 1 .. Len(F.upvalues) : F.upvalues[i].k = v.k /\ F.upvalues[i].info = v.info}
WithUpvalue(F, name, v) ==
  IF SameUpvalue(F, v) # {} THEN F
  ELSE [F EXCEPT !.upvalues = Append(@, [k |-> v.k, info |-> v.info, name |-> name])]
indexupvalue(F, name, v) == Greatest(SameUpvalue(WithUpvalue(F, name, v), v)) - 1

(* The variable n as the function at level l sees it; fss are the open     *)
(* functions, which get blocks marked and upvalues added.                  *)
RECURSIVE singlevaraux(_, _, _, _)
singlevaraux(fss, l, n, base) ==
  IF l = 0 THEN [fss |-> fss, k |-> "VGLOBAL", info |-> NO_REG]
  ELSE LET v == searchvar(fss[l], n)
           u == singlevaraux(fss, l - 1, n, FALSE)
       IN IF v >= 0
          THEN [fss |-> IF base THEN fss ELSE [fss EXCEPT ![l] = markupval(@, v)],
                k |-> "VLOCAL", info |-> v]
          ELSE IF u.k = "VGLOBAL" THEN u
          ELSE [fss |-> [u.fss EXCEPT ![l] = WithUpvalue(@, n, u)],
                k |-> "VUPVAL", info |-> indexupvalue(u.fss[l], n, u)]

singlevar(S0) ==
  LET S == checknext(S0, "NAME")
      u == singlevaraux(Append(S.up, S.F), Len(S.up) + 1, Val(S0), TRUE)
      S1 == [S EXCEPT !.F = u.fss[Len(S.up) + 1], !.up = SubSeq(u.fss, 1, Len(S.up))]
      S2 == IF \E l \in DOMAIN u.fss : Len(u.fss[l].upvalues) > LUAI_MAXUPVALUES
            THEN Error(S1, "more than limit: upvalues") ELSE S1
      S3 == addk(S2, Str(Val(S0)))
  IN IF u.k = "VGLOBAL" THEN WithExp(S3, Exp("VGLOBAL", S3.r)) ELSE WithExp(S2, Exp(u.k, u.info))

adjust_assign(S, nvars, nexps) ==
  LET extra == nvars - nexps
      more == IF extra + 1 < 0 THEN 0 ELSE extra + 1
      S1 == luaK_setreturns(S, more)
      S2 == IF S.e.k = "VVOID" THEN S ELSE luaK_exp2nextreg(S)
  IN IF hasmultret(S.e.k) THEN IF more > 1 THEN luaK_reserveregs(S1, more - 1) ELSE S1
     ELSE IF extra > 0 THEN luaK_nil(luaK_reserveregs(S2, extra), S2.F.freereg, extra) ELSE S2

enterlevel(S) == checklimit([S EXCEPT !.nCcalls = @ + 1], S.nCcalls + 1, LUAI_MAXCCALLS, "syntax levels")
leavelevel(S) == [S EXCEPT !.nCcalls = @ - 1]

enterblock(S, isbreakable) ==
  LET bl == [breaklist |-> NO_JUMP, nactvar |-> S.F.nactvar, upval |-> FALSE,
             isbreakable |-> isbreakable]
  IN [Assert(S, S.F.freereg = S.F.nactvar) EXCEPT !.F.bl = Append(@, bl)]

Block(S) == S.F.bl[Len(S.F.bl)]
leaveblock(S) ==
  LET bl == Block(S)
      S1 == removevars([S EXCEPT !.F.bl = SubSeq(@, 1, Len(@) - 1)], bl.nactvar)
      S2 == IF bl.upval THEN luaK_codeABC(S1, "CLOSE", bl.nactvar, 0, 0) ELSE S1
      S3 == Assert(S2, ~bl.isbreakable \/ ~bl.upval)
  IN luaK_patchtohere([S3 EXCEPT !.F.freereg = S3.F.nactvar], bl.breaklist)

--------------------------------------------------------------------------------
(* Functions. *)
NewFunction == [code |-> <<>>, k |-> <<>>, p |-> <<>>, upvalues |-> <<>>, locvars |-> <<>>,
                actvar |-> <<>>, nactvar |-> 0, freereg |-> 0, lasttarget |-> -1,
                jpc |-> NO_JUMP, bl |-> <<>>, maxstacksize |-> 2, numparams |-> 0,
                is_vararg |-> {}]
open_func(S) == [S EXCEPT !.up = Append(@, S.F), !.F = NewFunction]

Proto(F) == [code |-> F.code, k |-> F.k, p |-> F.p, nups |-> Len(F.upvalues),
             numparams |-> F.numparams, is_vararg |-> F.is_vararg,
             maxstacksize |-> F.maxstacksize, locvars |-> F.locvars,
             upvalues |-> [i \in DOMAIN F.upvalues |-> F.upvalues[i].name]]

(* The function is finished; it is what the result has in F. *)
finish_func(S) == LET S1 == luaK_ret(removevars(S, 0), 0, 0) IN Assert(S1, S1.F.bl = <<>>)
close_func(S) == [S EXCEPT !.F = S.up[Len(S.up)], !.up = SubSeq(@, 1, Len(@) - 1)]

(* How the new closure gets its upvalues comes after the CLOSURE. *)
RECURSIVE CodeUpvalues(_, _)
CodeUpvalues(S, ups) ==
  IF ups = <<>> THEN S
  ELSE CodeUpvalues(luaK_codeABC(S, IF ups[1].k = "VLOCAL" THEN "MOVE" ELSE "GETUPVAL",
                                 0, ups[1].info, 0), Tail(ups))
pushclosure(S, func) ==
  LET S1 == luaK_codeABx([S EXCEPT !.F.p = Append(@, Proto(func))], "CLOSURE", 0, Len(S.F.p))
  IN CodeUpvalues(WithExp(S1, Exp("VRELOCABLE", S1.r)), func.upvalues)

RECURSIVE chunk(_), expr(_), subexpr(_, _), primaryexp(_), Params(_, _)

Params(S, n) ==
  CASE Tok(S) = "NAME" ->
         LET S1 == new_localvar(luaX_next(S), Val(S), n)
         IN IF Tok(S1) = "," THEN Params(luaX_next(S1), n + 1) ELSE [S1 EXCEPT !.r = n + 1]
    [] Tok(S) = "..." ->
         [new_localvar(luaX_next(S), "arg", n)
            EXCEPT !.F.is_vararg = {"HASARG", "NEEDSARG", "ISVARARG"}, !.r = n + 1]
    [] OTHER -> Error(S, "<name> or '...' expected")

parlist(S) ==
  LET S1 == IF Tok(S) = ")" THEN [S EXCEPT !.r = 0] ELSE Params(S, 0)
      S2 == IF S1.err = "" THEN adjustlocalvars(S1, S1.r) ELSE S1
      hasarg == IF "HASARG" \in S2.F.is_vararg THEN 1 ELSE 0
  IN luaK_reserveregs([S2 EXCEPT !.F.numparams = S2.F.nactvar - hasarg], S2.F.nactvar)

body(S, needself) ==
  LET S1 == checknext(open_func(S), "(")
      S2 == IF needself THEN adjustlocalvars(new_localvar(S1, "self", 0), 1) ELSE S1
      S3 == finish_func(checknext(chunk(checknext(parlist(S2), ")")), "end"))
  IN pushclosure(close_func(S3), S3.F)

(* luaY_parser. *)
Start(toks) == [toks |-> toks, pos |-> 1, ahead |-> 0, lastline |-> 1,
                F |-> [NewFunction EXCEPT !.is_vararg = {"ISVARARG"}], up |-> <<>>,
                e |-> Exp("VVOID", 0), r |-> 0, err |-> "", nCcalls |-> 0]
luaY_parser(toks) ==
  LET S == finish_func(Check(chunk(Start(toks)), "EOS"))
  IN [err |-> S.err, f |-> Proto(S.F)]

--------------------------------------------------------------------------------
(* Expressions. *)
field(S) ==
  LET S1 == luaK_exp2anyreg(S) IN luaK_indexed(checkname(luaX_next(S1)), S1.e)

yindex(S) == checknext(luaK_exp2val(expr(luaX_next(S))), "]")

(* Table constructors: cc is what a struct ConsControl is; the operators   *)
(* give the state and the new cc.                                          *)
recfield(S, cc) ==
  LET S1 == IF Tok(S) = "NAME" THEN checkname(S) ELSE yindex(S)
      S2 == luaK_exp2RK(checknext(S1, "="))
      S3 == luaK_exp2RK(expr(S2))
      S4 == luaK_codeABC(S3, "SETTABLE", cc.t.info, S2.r, S3.r)
  IN [s |-> [S4 EXCEPT !.F.freereg = S.F.freereg], c |-> [cc EXCEPT !.nh = @ + 1]]

closelistfield(S, cc) ==
  LET S1 == luaK_exp2nextreg(WithExp(S, cc.v))
      flush == cc.tostore = LFIELDS_PER_FLUSH
  IN IF cc.v.k = "VVOID" THEN [s |-> S, c |-> cc]
     ELSE [s |-> IF flush THEN luaK_setlist(S1, cc.t.info, cc.na, cc.tostore) ELSE S1,
           c |-> [cc EXCEPT !.v.k = "VVOID", !.tostore = IF flush THEN 0 ELSE @]]

lastlistfield(S, cc) ==
  LET V == WithExp(S, cc.v)
  IN IF cc.tostore = 0 THEN [s |-> S, c |-> cc]
     ELSE IF hasmultret(cc.v.k)
     THEN [s |-> luaK_setlist(luaK_setmultret(V), cc.t.info, cc.na, LUA_MULTRET),
           c |-> [cc EXCEPT !.na = @ - 1]]
     ELSE [s |-> luaK_setlist(IF cc.v.k = "VVOID" THEN V ELSE luaK_exp2nextreg(V),
                              cc.t.info, cc.na, cc.tostore),
           c |-> cc]

listfield(S, cc) ==
  LET S1 == expr(S)
  IN [s |-> S1, c |-> [cc EXCEPT !.v = S1.e, !.na = @ + 1, !.tostore = @ + 1]]

RECURSIVE Fields(_, _)
Fields(S, cc) ==
  LET C == closelistfield(Assert(S, cc.v.k = "VVOID" \/ cc.tostore > 0), cc)
      S1 == IF Tok(S) = "NAME" THEN luaX_lookahead(C.s) ELSE C.s
      isrec == Tok(S) = "[" \/ (Tok(S) = "NAME" /\ S.toks[S.pos + 1].t = "=")
      D == IF isrec THEN recfield(S1, C.c) ELSE listfield(S1, C.c)
  IN IF Tok(S) = "}" THEN [s |-> S, c |-> cc]
     ELSE IF Tok(D.s) \in {",", ";"} THEN Fields(luaX_next(D.s), D.c) ELSE D

(* luaO_int2fb: a size in a floating point byte, rounded up. *)
RECURSIVE int2fb(_, _)
int2fb(x, e) == IF x >= 16 THEN int2fb((x + 1) \div 2, e + 1)
                ELSE IF x < 8 THEN x ELSE (e + 1) * 8 + (x - 8)
luaO_int2fb(x) == int2fb(x, 0)

constructor(S) ==
  LET S1 == luaK_codeABC(S, "NEWTABLE", 0, 0, 0)
      S2 == luaK_exp2nextreg(WithExp(S1, Exp("VRELOCABLE", S1.r)))
      cc == [v |-> Exp("VVOID", 0), t |-> S2.e, nh |-> 0, na |-> 0, tostore |-> 0]
      C == Fields(checknext(S2, "{"), cc)
      D == lastlistfield(checknext(C.s, "}"), C.c)
  IN WithExp([D.s EXCEPT !.F.code[S1.r + 1].b = luaO_int2fb(D.c.na),
                         !.F.code[S1.r + 1].c = luaO_int2fb(D.c.nh)], S2.e)

(* How many there are is in n. *)
RECURSIVE Explist(_, _)
Explist(S, n) == IF Tok(S) = "," THEN Explist(expr(luaX_next(luaK_exp2nextreg(S))), n + 1)
                 ELSE [s |-> S, n |-> n]
explist1(S) == Explist(expr(S), 1)

funcargs(S) ==
  LET f == S.e
      S1 == luaX_next(S)
      args == CASE Tok(S) = "(" /\ Linenumber(S) # S.lastline -> Error(S, "ambiguous syntax")
                [] Tok(S) = "(" -> checknext(IF Tok(S1) = ")" THEN WithExp(S1, Exp("VVOID", 0))
                                             ELSE luaK_setmultret(explist1(S1).s), ")")
                [] Tok(S) = "{" -> constructor(S)
                [] Tok(S) = "STRING" -> codestring(S1, Val(S))
                [] OTHER -> Error(S, "function arguments expected")
      S2 == IF args.e.k = "VVOID" THEN args ELSE luaK_exp2nextreg(args)
      call == IF hasmultret(args.e.k) THEN luaK_codeABC(args, "CALL", f.info, 0, 2)
              ELSE luaK_codeABC(S2, "CALL", f.info, S2.F.freereg - f.info, 2)
      S3 == Assert(call, f.k = "VNONRELOC")
  IN [WithExp(S3, Exp("VCALL", S3.r)) EXCEPT !.F.freereg = f.info + 1]

prefixexp(S) ==
  CASE Tok(S) = "(" -> luaK_dischargevars(checknext(expr(luaX_next(S)), ")"))
    [] Tok(S) = "NAME" -> singlevar(S)
    [] OTHER -> Error(S, "unexpected symbol")

RECURSIVE Suffixes(_)
Suffixes(S) ==
  LET V == luaK_exp2anyreg(S)
  IN CASE Tok(S) = "." -> Suffixes(field(S))
       [] Tok(S) = "[" -> Suffixes(luaK_indexed(yindex(V), V.e))
       [] Tok(S) = ":" -> LET K == checkname(luaX_next(S))
                          IN Suffixes(funcargs(luaK_self(WithExp(K, S.e), K.e)))
       [] Tok(S) \in {"(", "STRING", "{"} -> Suffixes(funcargs(luaK_exp2nextreg(S)))
       [] OTHER -> S
primaryexp(S) == Suffixes(prefixexp(S))

vararg(S) ==
  IF S.F.is_vararg = {} THEN Error(S, "cannot use '...' outside a vararg function")
  ELSE LET S1 == luaK_codeABC([S EXCEPT !.F.is_vararg = @ \ {"NEEDSARG"}], "VARARG", 0, 1, 0)
       IN WithExp(S1, Exp("VVARARG", S1.r))

simpleexp(S) ==
  CASE Tok(S) = "NUMBER" -> luaX_next(WithExp(S, Exp("VKNUM", Val(S))))
    [] Tok(S) = "STRING" -> luaX_next(codestring(S, Val(S)))
    [] Tok(S) = "nil" -> luaX_next(WithExp(S, Exp("VNIL", 0)))
    [] Tok(S) = "true" -> luaX_next(WithExp(S, Exp("VTRUE", 0)))
    [] Tok(S) = "false" -> luaX_next(WithExp(S, Exp("VFALSE", 0)))
    [] Tok(S) = "..." -> luaX_next(vararg(S))
    [] Tok(S) = "{" -> constructor(S)
    [] Tok(S) = "function" -> body(luaX_next(S), FALSE)
    [] OTHER -> primaryexp(S)

(* left and right priority of the binary operators. *)
priority ==
  [o \in {"+", "-", "*", "/", "%", "^", "..", "~=", "==", "<", "<=", ">", ">=", "and", "or"} |->
     CASE o \in {"+", "-"} -> <<6, 6>> [] o \in {"*", "/", "%"} -> <<7, 7>>
       [] o = "^" -> <<10, 9>> [] o = ".." -> <<5, 4>>
       [] o = "and" -> <<2, 2>> [] o = "or" -> <<1, 1>> [] OTHER -> <<3, 3>>]
getunopr == {"not", "-", "#"}
UNARY_PRIORITY == 8

RECURSIVE Expand(_, _)
Expand(S, limit) ==
  IF Tok(S) \notin DOMAIN priority THEN S
  ELSE IF priority[Tok(S)][1] <= limit THEN S
  ELSE LET S1 == luaK_infix(luaX_next(S), Tok(S))
           S2 == subexpr(S1, priority[Tok(S)][2])
       IN Expand(luaK_posfix(S2, Tok(S), S1.e), limit)
subexpr(S0, limit) ==
  LET S == enterlevel(S0)
      S1 == IF Tok(S) \in getunopr
            THEN luaK_prefix(subexpr(luaX_next(S), UNARY_PRIORITY), Tok(S))
            ELSE simpleexp(S)
  IN leavelevel(Expand(S1, limit))
expr(S) == subexpr(S, 0)

--------------------------------------------------------------------------------
(* Statements. *)
block_follow == {"else", "elseif", "end", "until", "EOS"}

block(S) == leaveblock(chunk(enterblock(S, FALSE)))

(* A local that is assigned, and was the table or the key of an assignment *)
(* to its left, is saved for that.                                         *)
check_conflict(S, lh, v) ==
  LET C(x) == x.k = "VINDEXED" /\ (x.info = v.info \/ x.aux = v.info)
      extra == S.F.freereg
      Safe(x) == [x EXCEPT !.info = IF @ = v.info THEN extra ELSE @,
                           !.aux = IF @ = v.info THEN extra ELSE @]
      S1 == luaK_reserveregs(luaK_codeABC(S, "MOVE", extra, v.info, 0), 1)
  IN IF \E i \in DOMAIN lh : C(lh[i])
     THEN [s |-> S1, lh |-> [i \in DOMAIN lh |-> IF C(lh[i]) THEN Safe(lh[i]) ELSE lh[i]]]
     ELSE [s |-> S, lh |-> lh]

IsVariable(e) == e.k \in {"VLOCAL", "VUPVAL", "VGLOBAL", "VINDEXED"}

(* The left side, up to the "="; then the values, stored from the right.   *)
RECURSIVE LeftSide(_, _)
LeftSide(S0, lh) ==
  LET S == IF IsVariable(lh[Len(lh)]) THEN S0 ELSE Error(S0, "syntax error")
      S1 == primaryexp(luaX_next(S))
      C == IF S1.e.k = "VLOCAL" THEN check_conflict(S1, lh, S1.e) ELSE [s |-> S1, lh |-> lh]
      S2 == checklimit(C.s, Len(lh), LUAI_MAXCCALLS - C.s.nCcalls, "variables in assignment")
  IN IF Tok(S) = "," THEN LeftSide(S2, Append(C.lh, S1.e)) ELSE [s |-> S, lh |-> lh]

RECURSIVE StoreFromTop(_, _)
StoreFromTop(S, lh) ==
  IF lh = <<>> THEN S
  ELSE StoreFromTop(luaK_storevar(WithExp(S, Exp("VNONRELOC", S.F.freereg - 1)), lh[Len(lh)]),
                    SubSeq(lh, 1, Len(lh) - 1))

assignment(S, v) ==
  LET L == LeftSide(S, <<v>>)
      nvars == Len(L.lh)
      X == explist1(checknext(L.s, "="))
      S1 == adjust_assign(X.s, nvars, X.n)
      S2 == [S1 EXCEPT !.F.freereg = IF X.n > nvars THEN @ - (X.n - nvars) ELSE @]
  IN IF L.s.err # "" \/ X.s.err # "" THEN X.s
     ELSE IF X.n # nvars THEN StoreFromTop(S2, L.lh)
     ELSE StoreFromTop(luaK_storevar(luaK_setoneret(X.s), L.lh[nvars]), SubSeq(L.lh, 1, nvars - 1))

(* Where a false condition goes: in r. *)
cond(S) ==
  LET S1 == expr(S)
      S2 == luaK_goiftrue(IF S1.e.k = "VNIL" THEN [S1 EXCEPT !.e.k = "VFALSE"] ELSE S1)
  IN [S2 EXCEPT !.r = S2.e.f]

breakstat(S) ==
  LET loops == {j \in 1 .. Len(S.F.bl) : S.F.bl[j].isbreakable}
      b == Greatest(loops)
      upval == \E j \in b + 1 .. Len(S.F.bl) : S.F.bl[j].upval
      S1 == luaK_jump(IF upval THEN luaK_codeABC(S, "CLOSE", S.F.bl[b].nactvar, 0, 0) ELSE S)
      S2 == luaK_concat(S1, S1.F.bl[b].breaklist, S1.r)
  IN IF loops = {} THEN Error(S, "no loop to break")
     ELSE [S2 EXCEPT !.F.bl[b].breaklist = S2.r]

JumpBack(S, target) == LET S1 == luaK_jump(S) IN luaK_patchlist(S1, S1.r, target)

whilestat(S) ==
  LET S1 == luaK_getlabel(luaX_next(S))
      S2 == cond(S1)
      S3 == block(checknext(enterblock(S2, TRUE), "do"))
      S4 == checknext(JumpBack(S3, S1.r), "end")
  IN luaK_patchtohere(leaveblock(S4), S2.r)

repeatstat(S) ==
  LET S1 == luaK_getlabel(S)
      S2 == chunk(luaX_next(enterblock(enterblock(S1, TRUE), FALSE)))
      S3 == cond(checknext(S2, "until"))
      simple == luaK_patchlist(leaveblock(S3), S3.r, S1.r)
      S4 == luaK_patchtohere(breakstat(S3), S3.r)
      closing == JumpBack(leaveblock(S4), S1.r)
  IN leaveblock(IF Block(S3).upval THEN closing ELSE simple)

exp1(S) == luaK_exp2nextreg(expr(S))

forbody(S, base, nvars, isnum) ==
  LET S1 == checknext(adjustlocalvars(S, 3), "do")
      S2 == IF isnum THEN luaK_codeABx(S1, "FORPREP", base, NO_JUMP) ELSE luaK_jump(S1)
      S3 == luaK_reserveregs(adjustlocalvars(enterblock(S2, FALSE), nvars), nvars)
      S4 == luaK_patchtohere(leaveblock(block(S3)), S2.r)
      S5 == IF isnum THEN luaK_codeABx(S4, "FORLOOP", base, NO_JUMP)
            ELSE luaK_jump(luaK_codeABC(S4, "TFORLOOP", base, 0, nvars))
  IN luaK_patchlist(S5, S5.r, S2.r + 1)

RECURSIVE Locals(_, _, _)
Locals(S, names, n) ==
  IF names = <<>> THEN S ELSE Locals(new_localvar(S, names[1], n), Tail(names), n + 1)

fornum(S, varname) ==
  LET S1 == checknext(Locals(S, <<"(for index)", "(for limit)", "(for step)", varname>>, 0), "=")
      S2 == exp1(checknext(exp1(S1), ","))
      S3 == addk(S2, Num(1))
      default == luaK_reserveregs(luaK_codeABx(S3, "LOADK", S3.F.freereg, S3.r), 1)
      S4 == IF Tok(S2) = "," THEN exp1(luaX_next(S2)) ELSE default
  IN forbody(S4, S.F.freereg, 1, TRUE)

(* More names after commas; how many variables there are is in r. *)
RECURSIVE Names(_, _)
Names(S, n) ==
  IF Tok(S) # "," THEN [S EXCEPT !.r = n]
  ELSE LET S1 == str_checkname(luaX_next(S)) IN Names(new_localvar(S1, S1.r, n), n + 1)

forlist(S, indexname) ==
  LET S1 == Names(Locals(S, <<"(for generator)", "(for state)", "(for control)", indexname>>, 0), 4)
      X == explist1(checknext(S1, "in"))
      S2 == luaK_checkstack(adjust_assign(X.s, 3, X.n), 3)
  IN forbody(S2, S.F.freereg, S1.r - 3, FALSE)

forstat(S) ==
  LET S1 == str_checkname(luaX_next(enterblock(S, TRUE)))
      S2 == CASE Tok(S1) = "=" -> fornum(S1, S1.r)
              [] Tok(S1) \in {",", "in"} -> forlist(S1, S1.r)
              [] OTHER -> Error(S1, "'=' or 'in' expected")
  IN IF S2.err # "" THEN S2 ELSE leaveblock(checknext(S2, "end"))

(* Jumps over an else: in escape; where a false condition goes: in r. *)
test_then_block(S) ==
  LET S1 == cond(luaX_next(S)) IN [block(checknext(S1, "then")) EXCEPT !.r = S1.r]

RECURSIVE IfRest(_, _)
IfRest(S, escape) ==
  LET J == luaK_jump(S)
      E == luaK_concat(J, escape, J.r)
      P == luaK_patchtohere(E, S.r)
      L == luaK_concat(S, escape, S.r)
      B == block(luaX_next(P))
  IN CASE Tok(S) = "elseif" -> IfRest(test_then_block(P), E.r)
       [] Tok(S) = "else" -> luaK_patchtohere(B, E.r)
       [] OTHER -> luaK_patchtohere(L, L.r)
ifstat(S) == checknext(IfRest(test_then_block(S), NO_JUMP), "end")

localfunc(S) ==
  LET S1 == str_checkname(S)
      v == Exp("VLOCAL", S.F.freereg)
      S2 == adjustlocalvars(luaK_reserveregs(new_localvar(S1, S1.r, 0), 1), 1)
      S3 == luaK_storevar(body(S2, FALSE), v)
  IN IF S3.err # "" THEN S3
     ELSE [S3 EXCEPT !.F.locvars[Locvar(S3.F, S3.F.nactvar - 1)].startpc = PC(S3)]

localstat(S) ==
  LET S1 == str_checkname(S)
      S2 == Names(new_localvar(S1, S1.r, 0), 1)
      X == IF Tok(S2) = "=" THEN explist1(luaX_next(S2))
           ELSE [s |-> WithExp(S2, Exp("VVOID", 0)), n |-> 0]
  IN IF X.s.err # "" THEN X.s ELSE adjustlocalvars(adjust_assign(X.s, S2.r, X.n), S2.r)

RECURSIVE FieldNames(_)
FieldNames(S) == IF Tok(S) = "." THEN FieldNames(field(S)) ELSE S
funcstat(S) ==
  LET S1 == FieldNames(singlevar(luaX_next(S)))
      needself == Tok(S1) = ":"
      S2 == IF needself THEN field(S1) ELSE S1
  IN luaK_storevar(body(S2, needself), S2.e)

exprstat(S) ==
  LET S1 == primaryexp(S)
  IN IF S1.err # "" THEN S1
     ELSE IF S1.e.k = "VCALL" THEN [S1 EXCEPT !.F.code[S1.e.info + 1].c = 1]
     ELSE assignment(S1, S1.e)

retstat(S0) ==
  LET S == luaX_next(S0)
      X == explist1(S)
      M == luaK_setmultret(X.s)
      tail == X.s.e.k = "VCALL" /\ X.n = 1
      T == Assert([M EXCEPT !.F.code[M.e.info + 1].op = IF tail THEN "TAILCALL" ELSE @],
                  tail => getcode(M).a = M.F.nactvar)
      one == luaK_exp2anyreg(X.s)
      many == luaK_exp2nextreg(X.s)
      first == X.s.F.nactvar
  IN CASE Tok(S) \in block_follow \cup {";"} -> luaK_ret(S, 0, 0)
       [] X.s.err # "" -> X.s
       [] hasmultret(X.s.e.k) -> luaK_ret(T, first, LUA_MULTRET)
       [] X.n = 1 -> luaK_ret(one, one.r, 1)
       [] OTHER -> luaK_ret(Assert(many, X.n = many.F.freereg - first), first, X.n)

statement(S) ==
  CASE Tok(S) = "if" -> ifstat(S)
    [] Tok(S) = "while" -> whilestat(S)
    [] Tok(S) = "do" -> checknext(block(luaX_next(S)), "end")
    [] Tok(S) = "for" -> forstat(S)
    [] Tok(S) = "repeat" -> repeatstat(S)
    [] Tok(S) = "function" -> funcstat(S)
    [] Tok(S) = "local" ->
         LET S1 == luaX_next(S)
         IN IF Tok(S1) = "function" THEN localfunc(luaX_next(S1)) ELSE localstat(S1)
    [] Tok(S) = "return" -> retstat(S)
    [] Tok(S) = "break" -> breakstat(luaX_next(S))
    [] OTHER -> exprstat(S)

RECURSIVE Stats(_)
Stats(S) ==
  LET S1 == statement(S)
      S2 == IF Tok(S1) = ";" THEN luaX_next(S1) ELSE S1
      S3 == Assert(S2, S2.F.maxstacksize >= S2.F.freereg /\ S2.F.freereg >= S2.F.nactvar)
      S4 == [S3 EXCEPT !.F.freereg = S3.F.nactvar]
  IN IF S.err # "" \/ Tok(S) \in block_follow THEN S
     ELSE IF Tok(S) \in {"return", "break"} THEN S4 ELSE Stats(S4)
chunk(S) == leavelevel(Stats(enterlevel(S)))
================================================================================
