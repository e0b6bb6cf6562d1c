-------------------------------- MODULE LuaDump --------------------------------
(***************************************************************************)
(* Compiled functions as a file: ldump.c and lundump.c, with the reading   *)
(* of lzio.c.  A file is a sequence of items <<kind, value>>: a header, an *)
(* integer, a byte, the size of a string, its letters, a number or an      *)
(* instruction.  What a function knows about its source is not kept here,  *)
(* but for the names of its variables.                                     *)
(***************************************************************************)
EXTENDS LuaOpcodes

(* The code checker: luaG_checkcode and what symbexec of ldebug.c demands  *)
(* of every instruction when it follows no register.  A function f is one  *)
(* of the compiler's; pc counts from 0.                                    *)
At(f, pc) == f.code[pc + 1]
InCode(f, pc) == 0 <= pc /\ pc < Len(f.code)
checkreg(f, reg) == reg < f.maxstacksize

precheck(f) ==
  /\ f.maxstacksize <= MAXSTACK
  /\ f.numparams + (IF "HASARG" \in f.is_vararg THEN 1 ELSE 0) <= f.maxstacksize
  /\ "NEEDSARG" \in f.is_vararg => "HASARG" \in f.is_vararg
  /\ Len(f.upvalues) <= f.nups
  /\ f.code # <<>> /\ At(f, Len(f.code) - 1).op = "RETURN"

(* What an instruction after an open call, or "...", must be. *)
luaG_checkopenop(i) == i.op \in {"CALL", "TAILCALL", "RETURN", "SETLIST"} /\ i.b = 0

checkArgMode(f, r, mode) ==
  CASE mode = "N" -> r = 0
    [] mode = "U" -> TRUE
    [] mode = "R" -> checkreg(f, r)
    [] mode = "K" -> IF ISK(r) THEN INDEXK(r) < Len(f.k) ELSE checkreg(f, r)

(* A jump goes to an instruction, not to the count of a SETLIST. *)
JumpFits(f, pc, i) == InCode(f, pc + 1 + i.b) /\ At(f, pc + 1 + i.b).op # "EXTRA"
OperandsFit(f, pc, i) ==
  LET mode == getOpMode(i.op)
  IN CASE mode = "ABC" -> checkArgMode(f, i.b, getBMode(i.op)) /\ checkArgMode(f, i.c, getCMode(i.op))
       [] mode = "ABx" -> getBMode(i.op) = "K" => i.b < Len(f.k)
       [] OTHER -> getBMode(i.op) = "R" => JumpFits(f, pc, i)

(* The part of symbexec that is a case for each opcode. *)
InstructionFits(f, pc, i) ==
  LET next == At(f, pc + 1)
      nup == f.p[i.b + 1].nups
  IN CASE i.op = "LOADBOOL" -> i.c = 1 => InCode(f, pc + 2) /\ ~(next.op = "SETLIST" /\ next.c = 0)
       [] i.op \in {"GETUPVAL", "SETUPVAL"} -> i.b < f.nups
       [] i.op \in {"GETGLOBAL", "SETGLOBAL"} -> IsString(f.k[i.b + 1])
       [] i.op = "SELF" -> checkreg(f, i.a + 1)
       [] i.op = "CONCAT" -> i.b < i.c
       [] i.op = "TFORLOOP" -> i.c >= 1 /\ checkreg(f, i.a + 2 + i.c)
       [] i.op \in {"FORLOOP", "FORPREP"} -> checkreg(f, i.a + 3)
       [] i.op \in {"CALL", "TAILCALL"} -> /\ i.b # 0 => checkreg(f, i.a + i.b - 1)
                                           /\ i.c = 0 => luaG_checkopenop(next)
                                           /\ i.c > 1 => checkreg(f, i.a + i.c - 2)
       [] i.op = "RETURN" -> i.b > 1 => checkreg(f, i.a + i.b - 2)
       [] i.op = "SETLIST" -> /\ i.b > 0 => checkreg(f, i.a + i.b)
                              /\ i.c = 0 => InCode(f, pc + 2)
       [] i.op = "CLOSURE" -> /\ i.b < Len(f.p) /\ InCode(f, pc + nup)
                              /\ \A j \in 1 .. nup : At(f, pc + j).op \in {"GETUPVAL", "MOVE"}
       [] i.op = "VARARG" -> /\ "ISVARARG" \in f.is_vararg /\ "NEEDSARG" \notin f.is_vararg
                             /\ i.b = 0 => luaG_checkopenop(next)
                             /\ checkreg(f, i.a + i.b - 2)
       [] OTHER -> TRUE

symbexec(f, pc) ==
  LET i == At(f, pc)
  IN i.op = "EXTRA" \/ /\ checkreg(f, i.a)
                       /\ OperandsFit(f, pc, i)
                       /\ testTMode(i.op) => InCode(f, pc + 2) /\ At(f, pc + 1).op = "JMP"
                       /\ InstructionFits(f, pc, i)

luaG_checkcode(f) == precheck(f) /\ \A pc \in 0 .. Len(f.code) - 1 : symbexec(f, pc)

--------------------------------------------------------------------------------
luaU_header == <<"header", "Lua 5.1">>

DumpInt(n) == <<<<"int", n>>>>
DumpChar(c) == <<<<"char", c>>>>
DumpString(s) == <<<<"size", Len(s) + 1>>, <<"chars", s>>>>
RECURSIVE DumpStrings(_), DumpLocvars(_), DumpConstants(_)
DumpStrings(ss) == IF ss = <<>> THEN <<>> ELSE DumpString(ss[1]) \o DumpStrings(Tail(ss))
DumpLocvars(vs) ==
  IF vs = <<>> THEN <<>>
  ELSE DumpString(vs[1].varname) \o DumpInt(vs[1].startpc) \o DumpInt(vs[1].endpc) \o DumpLocvars(Tail(vs))
DumpConstant(o) ==
  DumpChar(o[1]) \o CASE o[1] = "nil" -> <<>>
                      [] o[1] = "bool" -> DumpChar(o[2])
                      [] o[1] = "num" -> <<<<"number", o[2]>>>>
                      [] o[1] = "str" -> DumpString(o[2])
DumpConstants(k) == IF k = <<>> THEN <<>> ELSE DumpConstant(k[1]) \o DumpConstants(Tail(k))
DumpCode(code) == DumpInt(Len(code)) \o [i \in DOMAIN code |-> <<"code", Encode(code[i])>>]
(* lua_dump never leaves the names out ("strip"). *)
DumpDebug(f) ==
  DumpInt(Len(f.locvars)) \o DumpLocvars(f.locvars) \o DumpInt(Len(f.upvalues)) \o DumpStrings(f.upvalues)
RECURSIVE DumpFunction(_), DumpProtos(_)
DumpProtos(fs) == IF fs = <<>> THEN <<>> ELSE DumpFunction(fs[1]) \o DumpProtos(Tail(fs))
DumpFunction(f) ==
  DumpChar(f.nups) \o DumpChar(f.numparams) \o DumpChar(f.is_vararg) \o DumpChar(f.maxstacksize)
    \o DumpCode(f.code) \o DumpInt(Len(f.k)) \o DumpConstants(f.k)
    \o DumpInt(Len(f.p)) \o DumpProtos(f.p) \o DumpDebug(f)
luaU_dump(f) == <<luaU_header>> \o DumpFunction(f)

--------------------------------------------------------------------------------
(* What is read: the rest of the file, the value just read, the function   *)
(* being filled in, the depth and the first error.                         *)
error(S, why) == IF S.err # "" THEN S ELSE [S EXCEPT !.err = why]
LoadBlock(S) ==
  IF S.err # "" \/ S.rest = <<>> THEN error(S, "unexpected end")
  ELSE [S EXCEPT !.r = S.rest[1][2], !.rest = Tail(@)]
(* The words of a function's code are one block. *)
Words(S) ==
  IF S.err # "" \/ S.r > Len(S.rest) THEN error(S, "unexpected end")
  ELSE [S EXCEPT !.r = [i \in 1 .. @ |-> S.rest[i][2]], !.rest = SubSeq(@, S.r + 1, Len(@))]
LoadVector(S) == Words(LoadBlock(S))
WithOneMore(S, before) == [S EXCEPT !.r = IF S.err # "" THEN @ ELSE Append(before, @)]
LoadItems(n, Load(_)) ==
  LET read[i \in 0 .. n.r] ==
        IF i = 0 THEN [n EXCEPT !.r = <<>>]
        ELSE LET before == read[i - 1]
             IN IF before.err # "" THEN before ELSE WithOneMore(Load(before), before.r)
  IN IF n.err # "" THEN n ELSE read[n.r]
Many(S, Load(_)) == LoadItems(LoadBlock(S), Load)
Kept(S, field) == [S EXCEPT !.f[field] = S.r]

LoadString(S) == LoadBlock(LoadBlock(S))
LoadConstant(S) ==
  LET t == LoadBlock(S)
      o == IF t.r = "str" THEN LoadString(t) ELSE LoadBlock(t)
  IN IF t.err # "" THEN t
     ELSE CASE t.r = "nil" -> [t EXCEPT !.r = Nil]
            [] t.r \in {"bool", "num", "str"} -> [o EXCEPT !.r = <<t.r, @>>]
            [] OTHER -> error(t, "bad constant")
LocvarOf(S, name, startpc) == [S EXCEPT !.r = [varname |-> name, startpc |-> startpc, endpc |-> @]]
LocvarFrom(S, name) == LocvarOf(LoadBlock(S), name, S.r)
LocvarNamed(S) == LocvarFrom(LoadBlock(S), S.r)
LoadLocvar(S) == LocvarNamed(LoadString(S))

(* The words of a function; the one after a SETLIST without a count is it. *)
Decoded(words) ==
  LET count(i) == i > 1 /\ LET before == Decode(words[i - 1]) IN before.op = "SETLIST" /\ before.c = 0
  IN [i \in DOMAIN words |-> IF count(i) THEN Ins("EXTRA", 0, words[i], 0) ELSE Decode(words[i])]

Debug(S) == Kept(Many(Kept(Many(S, LoadLocvar), "locvars"), LoadString), "upvalues")
(* A mutant: a file may end before the names. *)
LoadDebugIfAny(S) ==
  IF S.rest = <<>> THEN [S EXCEPT !.f = [@ EXCEPT !.locvars = <<>>, !.upvalues = <<>>]] ELSE Debug(S)
LoadDebug(S) == Debug(S)

(* luaF_newproto, before anything is read. *)
Proto == [nups |-> 0, numparams |-> 0, is_vararg |-> 0, maxstacksize |-> 0, code |-> <<>>, k |-> <<>>,
          p |-> <<>>, locvars |-> <<>>, upvalues |-> <<>>]
Byte(S, field) == Kept(LoadBlock(S), field)
LoadSizes(S) == Byte(Byte(Byte(Byte(S, "nups"), "numparams"), "is_vararg"), "maxstacksize")
LoadCode(S) == Kept(LoadVector(S), "code")
LoadConstants(S) == Kept(Many(S, LoadConstant), "k")
WithCode(f) == [f EXCEPT !.code = Decoded(@)]
(* A function is good, and read into another one, or into none. *)
CheckedCode(S, f, S0) ==
  IF luaG_checkcode(f) THEN [S EXCEPT !.r = f, !.f = S0.f, !.depth = S0.depth] ELSE error(S, "bad code")
FunctionRead(S, S0) == IF S.err # "" THEN S ELSE CheckedCode(S, WithCode(S.f), S0)

RECURSIVE LoadFunction(_)
LoadProtos(S) == Kept(Many(S, LoadFunction), "p")
LoadFunction(S) ==
  IF S.depth = LUAI_MAXCCALLS THEN error(S, "code too deep")
  ELSE FunctionRead(LoadDebug(LoadProtos(LoadConstants(LoadCode(LoadSizes(
                      [S EXCEPT !.depth = @ + 1, !.f = Proto]))))), S)

LoadMain(S) == IF S.err = "" /\ S.r # luaU_header[2] THEN error(S, "bad header") ELSE LoadFunction(S)
Undumped(S) == [err |-> S.err, f |-> S.r]
luaU_undump(file) ==
  Undumped(LoadMain(LoadBlock([rest |-> file, r |-> 0, f |-> Proto, depth |-> 0, err |-> ""])))
================================================================================
