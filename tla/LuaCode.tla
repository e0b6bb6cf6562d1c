-------------------------------- MODULE LuaCode --------------------------------
(***************************************************************************)
(* The code generator of the Lua compiler: lcode.c.                        *)
(*                                                                         *)
(* A state of the compiler is a record S: the function F that is compiled, *)
(* the ones that enclose it, the tokens and the place in them, and an      *)
(* error.  A C function is an operator from S to S.  It works on the       *)
(* expression S.e; what it returns is S.r.  Expressions it gets besides    *)
(* are arguments.                                                          *)
(***************************************************************************)
EXTENDS LuaOpcodes

Exp(k, info) == [k |-> k, info |-> info, aux |-> 0, t |-> NO_JUMP, f |-> NO_JUMP]
WithExp(S, e) == [S EXCEPT !.e = e]
SetExp(S, k, info) == [S EXCEPT !.e.k = k, !.e.info = info]

(* luaX_syntaxerror, luaX_lexerror: the compiler is left by a long jump.   *)
(* Here it goes on at the end of the text, and the first error stands.     *)
Error(S, msg) == [S EXCEPT !.err = IF @ = "" THEN msg ELSE @, !.pos = Len(S.toks)]
(* lua_assert. *)
Assert(S, cond) == IF cond \/ S.err # "" THEN S ELSE Error(S, "lua_assert")

PC(S) == Len(S.F.code)
Code(S, pc) == S.F.code[pc + 1]
getcode(S) == Code(S, S.e.info)
SetCode(S, pc, i) == [S EXCEPT !.F.code[pc + 1] = i]

hasjumps(e) == e.t # e.f
isnumeral(e) == e.k = "VKNUM" /\ e.t = NO_JUMP /\ e.f = NO_JUMP

(* The head of the list of expression jumps, and the one after it. *)
getjump(S, pc) == IF Code(S, pc).b = NO_JUMP THEN NO_JUMP ELSE pc + 1 + Code(S, pc).b

fixjump(S, pc, dest) ==
  LET offset == dest - (pc + 1)
  IN IF offset > MAXARG_sBx \/ -offset > MAXARG_sBx
     THEN Error(S, "control structure too long")
     ELSE [S EXCEPT !.F.code[pc + 1].b = offset]

(* The test a jump belongs to, if there is one. *)
getjumpcontrol(S, pc) == IF pc >= 1 /\ testTMode(Code(S, pc - 1).op) THEN pc - 1 ELSE pc

RECURSIVE need_value(_, _)
need_value(S, list) ==
  /\ list # NO_JUMP
  /\ \/ Code(S, getjumpcontrol(S, list)).op # "TESTSET"
     \/ need_value(S, getjump(S, list))

patchtestreg(S, node, reg) ==
  LET c == getjumpcontrol(S, node)
      i == Code(S, c)
  IN IF i.op # "TESTSET" THEN [S EXCEPT !.r = 0]
     ELSE [SetCode(S, c, IF reg # NO_REG /\ reg # i.b THEN [i EXCEPT !.a = reg]
                         ELSE Ins("TEST", i.b, 0, i.c)) EXCEPT !.r = 1]

RECURSIVE removevalues(_, _)
removevalues(S, list) ==
  IF list = NO_JUMP THEN S
  ELSE removevalues(patchtestreg(S, list, NO_REG), getjump(S, list))

RECURSIVE patchlistaux(_, _, _, _, _)
patchlistaux(S, list, vtarget, reg, dtarget) ==
  IF list = NO_JUMP THEN S
  ELSE LET S1 == patchtestreg(S, list, reg)
           S2 == fixjump(S1, list, IF S1.r = 1 THEN vtarget ELSE dtarget)
       IN patchlistaux(S2, getjump(S, list), vtarget, reg, dtarget)

dischargejpc(S) ==
  [patchlistaux(S, S.F.jpc, PC(S), NO_REG, PC(S)) EXCEPT !.F.jpc = NO_JUMP]

luaK_code(S, i) ==
  LET S1 == dischargejpc(S)
  IN [S1 EXCEPT !.F.code = Append(@, i), !.r = Len(S1.F.code)]

luaK_codeABC(S, o, a, b, c) ==
  luaK_code(Assert(S, /\ getOpMode(o) = "ABC"
                      /\ getBMode(o) = "N" => b = 0
                      /\ getCMode(o) = "N" => c = 0), Ins(o, a, b, c))
luaK_codeABx(S, o, a, bx) == luaK_code(Assert(S, getOpMode(o) # "ABC"), Ins(o, a, bx, 0))

(* A list of jumps l1 gets l2 at its end: the operator gives the list in r. *)
RECURSIVE LastJump(_, _)
LastJump(S, list) == IF getjump(S, list) = NO_JUMP THEN list ELSE LastJump(S, getjump(S, list))
luaK_concat(S, l1, l2) ==
  IF l2 = NO_JUMP THEN [S EXCEPT !.r = l1]
  ELSE IF l1 = NO_JUMP THEN [S EXCEPT !.r = l2]
  ELSE [fixjump(S, LastJump(S, l1), l2) EXCEPT !.r = l1]
ConcatTrue(S, list) == LET S1 == luaK_concat(S, S.e.t, list) IN [S1 EXCEPT !.e.t = S1.r]
ConcatFalse(S, list) == LET S1 == luaK_concat(S, S.e.f, list) IN [S1 EXCEPT !.e.f = S1.r]

luaK_jump(S) ==
  LET S1 == luaK_codeABx([S EXCEPT !.F.jpc = NO_JUMP], "JMP", 0, NO_JUMP)
  IN luaK_concat(S1, S1.r, S.F.jpc)

luaK_getlabel(S) == [S EXCEPT !.F.lasttarget = PC(S), !.r = PC(S)]

luaK_patchtohere(S, list) ==
  LET S1 == luaK_getlabel(S)
      S2 == luaK_concat(S1, S1.F.jpc, list)
  IN [S2 EXCEPT !.F.jpc = S2.r]

luaK_patchlist(S, list, target) ==
  IF target = PC(S) THEN luaK_patchtohere(S, list)
  ELSE patchlistaux(Assert(S, target < PC(S)), list, target, NO_REG, target)

luaK_ret(S, first, nret) == luaK_codeABC(S, "RETURN", first, nret + 1, 0)
condjump(S, o, a, b, c) == luaK_jump(luaK_codeABC(S, o, a, b, c))

(* A LOADNIL is not coded where registers are nil yet, or is made a part   *)
(* of the one before it, unless something jumps between them.              *)
(* A mutant: a LOADNIL that is the target of a jump is lengthened too. *)
luaK_nilAcrossJump(S, from, n) ==
  LET i == Code(S, PC(S) - 1)
  IN IF PC(S) > 0 /\ i.op = "LOADNIL" /\ i.a <= from /\ from <= i.b + 1
     THEN SetCode(S, PC(S) - 1, [i EXCEPT !.b = from + n - 1])
     ELSE luaK_codeABC(S, "LOADNIL", from, from + n - 1, 0)
luaK_nil(S, from, n) ==
  LET i == Code(S, PC(S) - 1)
      fresh == PC(S) > S.F.lasttarget
  IN IF fresh /\ PC(S) = 0 /\ from >= S.F.nactvar THEN S
     ELSE IF fresh /\ PC(S) > 0 /\ i.op = "LOADNIL" /\ i.a <= from /\ from <= i.b + 1
     THEN IF from + n - 1 > i.b THEN SetCode(S, PC(S) - 1, [i EXCEPT !.b = from + n - 1]) ELSE S
     ELSE luaK_codeABC(S, "LOADNIL", from, from + n - 1, 0)

--------------------------------------------------------------------------------
(* Registers are a stack: the ones of expressions are above the locals.    *)
luaK_checkstack(S, n) ==
  LET newstack == S.F.freereg + n
  IN IF newstack <= S.F.maxstacksize THEN S
     ELSE IF newstack >= MAXSTACK THEN Error(S, "function or expression too complex")
     ELSE [S EXCEPT !.F.maxstacksize = newstack]

luaK_reserveregs(S, n) ==
  LET S1 == luaK_checkstack(S, n) IN [S1 EXCEPT !.F.freereg = @ + n]

freereg(S, reg) ==
  IF ~ISK(reg) /\ reg >= S.F.nactvar
  THEN Assert([S EXCEPT !.F.freereg = @ - 1], reg = S.F.freereg - 1)
  ELSE S

freeexp(S, e) == IF e.k = "VNONRELOC" THEN freereg(S, e.info) ELSE S

(* The constant v: the one there is, or a new one. *)
addk(S, v) ==
  IF \E i \in 1 .. Len(S.F.k) : S.F.k[i] = v
  THEN [S EXCEPT !.r = (CHOOSE i \in 1 .. Len(S.F.k) : S.F.k[i] = v) - 1]
  ELSE IF Len(S.F.k) >= MAXARG_Bx THEN Error(S, "constant table overflow")
  ELSE [S EXCEPT !.F.k = Append(@, v), !.r = Len(S.F.k)]

luaK_setreturns(S, nresults) ==
  CASE S.e.k = "VCALL" -> [S EXCEPT !.F.code[S.e.info + 1].c = nresults + 1]
    [] S.e.k = "VVARARG" ->
         luaK_reserveregs([S EXCEPT !.F.code[S.e.info + 1].b = nresults + 1,
                                    !.F.code[S.e.info + 1].a = S.F.freereg], 1)
    [] OTHER -> S

luaK_setmultret(S) == luaK_setreturns(S, LUA_MULTRET)

luaK_setoneret(S) ==
  CASE S.e.k = "VCALL" -> SetExp(S, "VNONRELOC", getcode(S).a)
    [] S.e.k = "VVARARG" -> [S EXCEPT !.F.code[S.e.info + 1].b = 2, !.e.k = "VRELOCABLE"]
    [] OTHER -> S

(* An expression whose result can be put in any register. *)
Relocable(S) == SetExp(S, "VRELOCABLE", S.r)

luaK_dischargevars(S) ==
  CASE S.e.k = "VLOCAL" -> SetExp(S, "VNONRELOC", S.e.info)
    [] S.e.k = "VUPVAL" -> Relocable(luaK_codeABC(S, "GETUPVAL", 0, S.e.info, 0))
    [] S.e.k = "VGLOBAL" -> Relocable(luaK_codeABx(S, "GETGLOBAL", 0, S.e.info))
    [] S.e.k = "VINDEXED" ->
         Relocable(luaK_codeABC(freereg(freereg(S, S.e.aux), S.e.info),
                                "GETTABLE", 0, S.e.info, S.e.aux))
    [] S.e.k \in {"VVARARG", "VCALL"} -> luaK_setoneret(S)
    [] OTHER -> S

code_label(S, a, b, jump) == luaK_codeABC(luaK_getlabel(S), "LOADBOOL", a, b, jump)

discharge2reg(S0, reg) ==
  LET S == luaK_dischargevars(S0)
      e == S.e
      Done(T) == SetExp(T, "VNONRELOC", reg)
      K(T) == luaK_codeABx(T, "LOADK", reg, T.r)
  IN CASE e.k = "VNIL" -> Done(luaK_nil(S, reg, 1))
       [] e.k = "VFALSE" -> Done(luaK_codeABC(S, "LOADBOOL", reg, 0, 0))
       [] e.k = "VTRUE" -> Done(luaK_codeABC(S, "LOADBOOL", reg, 1, 0))
       [] e.k = "VK" -> Done(luaK_codeABx(S, "LOADK", reg, e.info))
       [] e.k = "VKNUM" -> Done(K(addk(S, Num(e.info))))
       [] e.k = "VRELOCABLE" -> Done([S EXCEPT !.F.code[e.info + 1].a = reg])
       [] e.k = "VNONRELOC" ->
            Done(IF reg = e.info THEN S ELSE luaK_codeABC(S, "MOVE", reg, e.info, 0))
       [] OTHER -> Assert(S, e.k \in {"VVOID", "VJMP"})

discharge2anyreg(S) ==
  IF S.e.k = "VNONRELOC" THEN S
  ELSE LET S1 == luaK_reserveregs(S, 1) IN discharge2reg(S1, S1.F.freereg - 1)

(* The value comes into reg, on every way: jumps that leave a value (of a  *)
(* TESTSET) come to the end, others by a LOADBOOL.                         *)
exp2reg(S0, reg) ==
  LET S1 == discharge2reg(S0, reg)
      S == IF S1.e.k = "VJMP" THEN ConcatTrue(S1, S1.e.info) ELSE S1
      loads == need_value(S, S.e.t) \/ need_value(S, S.e.f)
      S2 == IF S.e.k = "VJMP" THEN [S EXCEPT !.r = NO_JUMP] ELSE luaK_jump(S)
      S3 == code_label(S2, reg, 0, 1)
      S4 == code_label(S3, reg, 1, 0)
      L == luaK_getlabel(IF loads THEN luaK_patchtohere(S4, S2.r) ELSE S)
      p_f == IF loads THEN S3.r ELSE NO_JUMP
      p_t == IF loads THEN S4.r ELSE NO_JUMP
      final == patchlistaux(patchlistaux(L, S.e.f, L.r, reg, p_f), S.e.t, L.r, reg, p_t)
  IN WithExp(IF hasjumps(S.e) THEN final ELSE S, Exp("VNONRELOC", reg))

luaK_exp2nextreg(S) ==
  LET S1 == luaK_dischargevars(S)
      S2 == luaK_reserveregs(freeexp(S1, S1.e), 1)
  IN exp2reg(S2, S2.F.freereg - 1)

luaK_exp2anyreg(S0) ==
  LET S == luaK_dischargevars(S0)
      S1 == IF S.e.k = "VNONRELOC" /\ ~hasjumps(S.e) THEN S
            ELSE IF S.e.k = "VNONRELOC" /\ S.e.info >= S.F.nactvar THEN exp2reg(S, S.e.info)
            ELSE luaK_exp2nextreg(S)
  IN [S1 EXCEPT !.r = S1.e.info]

luaK_exp2val(S) == IF hasjumps(S.e) THEN luaK_exp2anyreg(S) ELSE luaK_dischargevars(S)

(* A register or, if its index fits, a constant. *)
luaK_exp2RK(S0) ==
  LET S == luaK_exp2val(S0)
      v == CASE S.e.k = "VKNUM" -> Num(S.e.info)
             [] S.e.k = "VNIL" -> Nil
             [] OTHER -> Bool(S.e.k = "VTRUE")
      K == addk(S, v)
      S1 == IF S.e.k \in {"VKNUM", "VTRUE", "VFALSE", "VNIL"} /\ Len(S.F.k) <= MAXINDEXRK
            THEN SetExp(K, "VK", K.r) ELSE S
  IN IF S1.e.k = "VK" /\ S1.e.info <= MAXINDEXRK
     THEN [S1 EXCEPT !.r = RKASK(S1.e.info)]
     ELSE luaK_exp2anyreg(S1)

luaK_storevar(S, var) ==
  LET R == luaK_exp2anyreg(S)
      RK == luaK_exp2RK(S)
      Free(T) == freeexp(T, T.e)
  IN CASE var.k = "VLOCAL" -> exp2reg(freeexp(S, S.e), var.info)
       [] var.k = "VUPVAL" -> Free(luaK_codeABC(R, "SETUPVAL", R.r, var.info, 0))
       [] var.k = "VGLOBAL" -> Free(luaK_codeABx(R, "SETGLOBAL", R.r, var.info))
       [] var.k = "VINDEXED" -> Free(luaK_codeABC(RK, "SETTABLE", var.info, var.aux, RK.r))
       [] OTHER -> Assert(S, FALSE)

luaK_self(S0, key) ==
  LET S1 == luaK_exp2anyreg(S0)
      S2 == freeexp(S1, S1.e)
      func == S2.F.freereg
      S3 == luaK_exp2RK(WithExp(luaK_reserveregs(S2, 2), key))
      S4 == luaK_codeABC(S3, "SELF", func, S1.e.info, S3.r)
  IN WithExp(freeexp(S4, S4.e), [S1.e EXCEPT !.k = "VNONRELOC", !.info = func])

--------------------------------------------------------------------------------
(* Jumps on conditions. *)
invertjump(S) ==
  LET c == getjumpcontrol(S, S.e.info)
      i == Code(S, c)
  IN SetCode(Assert(S, testTMode(i.op) /\ i.op \notin {"TESTSET", "TEST"}), c,
             [i EXCEPT !.a = 1 - @])

jumponcond(S, cond) ==
  IF S.e.k = "VRELOCABLE" /\ getcode(S).op = "NOT"
  THEN condjump([S EXCEPT !.F.code = SubSeq(@, 1, Len(@) - 1)],
                "TEST", getcode(S).b, 0, 1 - cond)
  ELSE LET S1 == discharge2anyreg(S)
       IN condjump(freeexp(S1, S1.e), "TESTSET", NO_REG, S1.e.info, cond)

luaK_goiftrue(S0) ==
  LET S == luaK_dischargevars(S0)
      S1 == CASE S.e.k \in {"VK", "VKNUM", "VTRUE"} -> [S EXCEPT !.r = NO_JUMP]
              [] S.e.k = "VFALSE" -> luaK_jump(S)
              [] S.e.k = "VJMP" -> [invertjump(S) EXCEPT !.r = S.e.info]
              [] OTHER -> jumponcond(S, 0)
      S2 == ConcatFalse(S1, S1.r)
  IN [luaK_patchtohere(S2, S2.e.t) EXCEPT !.e.t = NO_JUMP]

luaK_goiffalse(S0) ==
  LET S == luaK_dischargevars(S0)
      S1 == CASE S.e.k \in {"VNIL", "VFALSE"} -> [S EXCEPT !.r = NO_JUMP]
              [] S.e.k = "VTRUE" -> luaK_jump(S)
              [] S.e.k = "VJMP" -> [S EXCEPT !.r = S.e.info]
              [] OTHER -> jumponcond(S, 1)
      S2 == ConcatTrue(S1, S1.r)
  IN [luaK_patchtohere(S2, S2.e.f) EXCEPT !.e.f = NO_JUMP]

codenot(S0) ==
  LET S == luaK_dischargevars(S0)
      D == discharge2anyreg(S)
      S1 == CASE S.e.k \in {"VNIL", "VFALSE"} -> [S EXCEPT !.e.k = "VTRUE"]
              [] S.e.k \in {"VK", "VKNUM", "VTRUE"} -> [S EXCEPT !.e.k = "VFALSE"]
              [] S.e.k = "VJMP" -> invertjump(S)
              [] S.e.k \in {"VRELOCABLE", "VNONRELOC"} ->
                   Relocable(luaK_codeABC(freeexp(D, D.e), "NOT", 0, D.e.info, 0))
              [] OTHER -> Assert(S, FALSE)
      S2 == [S1 EXCEPT !.e.t = S1.e.f, !.e.f = S1.e.t]
  IN removevalues(removevalues(S2, S2.e.f), S2.e.t)

(* t[k], with k in S.e. *)
luaK_indexed(S, t) ==
  LET S1 == luaK_exp2RK(S) IN WithExp(S1, [t EXCEPT !.aux = S1.r, !.k = "VINDEXED"])

--------------------------------------------------------------------------------
(* Operators: e1 is the left operand, S.e the right one. *)
constfolding(o, e1, e2) ==
  /\ isnumeral(e1) /\ isnumeral(e2)
  /\ o \in {"DIV", "MOD"} => e2.info # 0
  /\ o # "LEN"

codearith(S, o, e1) ==
  IF constfolding(o, e1, S.e)
  THEN WithExp(S, [e1 EXCEPT !.info = Arith(o, e1.info, S.e.info)])
  ELSE LET S2 == IF o \notin {"UNM", "LEN"} THEN luaK_exp2RK(S) ELSE [S EXCEPT !.r = 0]
           S1 == luaK_exp2RK(WithExp(S2, e1))
           S0 == IF S1.r > S2.r THEN freeexp(freeexp(S1, S1.e), S2.e)
                 ELSE freeexp(freeexp(S1, S2.e), S1.e)
       IN Relocable(luaK_codeABC(S0, o, 0, S1.r, S2.r))

codecomp(S, o, cond, e1) ==
  LET S1 == luaK_exp2RK(WithExp(S, e1))
      S2 == luaK_exp2RK(WithExp(S1, S.e))
      S3 == WithExp(freeexp(freeexp(S2, S2.e), S1.e), S1.e)
      S4 == IF cond = 0 /\ o # "EQ" THEN condjump(S3, o, 1, S2.r, S1.r)
            ELSE condjump(S3, o, cond, S1.r, S2.r)
  IN SetExp(S4, "VJMP", S4.r)

luaK_prefix(S, o) ==
  LET zero == Exp("VKNUM", 0)
      S1 == luaK_exp2anyreg(S)
      minus == IF isnumeral(S.e) THEN S ELSE S1
  IN CASE o = "-" -> codearith(WithExp(minus, zero), "UNM", minus.e)
       [] o = "not" -> codenot(S)
       [] o = "#" -> codearith(WithExp(S1, zero), "LEN", S1.e)

luaK_infix(S, o) ==
  CASE o = "and" -> luaK_goiftrue(S)
    [] o = "or" -> luaK_goiffalse(S)
    [] o = ".." -> luaK_exp2nextreg(S)
    [] o \in {"+", "-", "*", "/", "%", "^"} -> IF isnumeral(S.e) THEN S ELSE luaK_exp2RK(S)
    [] OTHER -> luaK_exp2RK(S)

ArithOp == [o \in {"+", "-", "*", "/", "%", "^"} |->
  CASE o = "+" -> "ADD" [] o = "-" -> "SUB" [] o = "*" -> "MUL"
    [] o = "/" -> "DIV" [] o = "%" -> "MOD" [] o = "^" -> "POW"]
CompOp == [o \in {"==", "~=", "<", "<=", ">", ">="} |->
  CASE o = "==" -> <<"EQ", 1>> [] o = "~=" -> <<"EQ", 0>>
    [] o = "<" -> <<"LT", 1>> [] o = "<=" -> <<"LE", 1>>
    [] o = ">" -> <<"LT", 0>> [] o = ">=" -> <<"LE", 0>>]

(* "a .. b .. c" is one CONCAT, grown from the right. *)
PosfixConcat(S0, e1) ==
  LET S == luaK_exp2val(S0)
      i == getcode(S)
  IN IF S.e.k = "VRELOCABLE" /\ i.op = "CONCAT"
     THEN WithExp([freeexp(Assert(S, e1.info = i.b - 1), e1)
                     EXCEPT !.F.code[S.e.info + 1].b = e1.info],
                  [e1 EXCEPT !.k = "VRELOCABLE", !.info = S.e.info])
     ELSE codearith(luaK_exp2nextreg(S), "CONCAT", e1)

luaK_posfix(S, o, e1) ==
  LET D(cond) == luaK_dischargevars(Assert(S, cond))
  IN CASE o = "and" -> ConcatFalse(D(e1.t = NO_JUMP), e1.f)
       [] o = "or" -> ConcatTrue(D(e1.f = NO_JUMP), e1.t)
       [] o = ".." -> PosfixConcat(S, e1)
       [] o \in DOMAIN ArithOp -> codearith(S, ArithOp[o], e1)
       [] OTHER -> codecomp(S, CompOp[o][1], CompOp[o][2], e1)

luaK_setlist(S, base, nelems, tostore) ==
  LET c == (nelems - 1) \div LFIELDS_PER_FLUSH + 1
      b == IF tostore = LUA_MULTRET THEN 0 ELSE tostore
      S1 == IF c <= MAXARG_C THEN luaK_codeABC(S, "SETLIST", base, b, c)
            ELSE luaK_code(luaK_codeABC(S, "SETLIST", base, b, 0), Ins("EXTRA", 0, c, 0))
  IN [Assert(S1, tostore # 0) EXCEPT !.F.freereg = base + 1]
================================================================================
