------------------------------ MODULE LuaOpcodes ------------------------------
(***************************************************************************)
(* The instructions of the Lua virtual machine: lopcodes.h and lopcodes.c, *)
(* and the values and numbers of lobject.h and luaconf.h.                  *)
(*                                                                         *)
(* An instruction is a record; what it is in 32 bits is Encode.  The sizes *)
(* of its fields are constants: small ones make the limits that depend on  *)
(* them (constants that do not fit in an operand, registers, jumps) come   *)
(* early.                                                                  *)
(***************************************************************************)
EXTENDS Integers, Sequences

CONSTANTS SIZE_A, SIZE_B, SIZE_C,   \* bits of the operands: 8, 9, 9
          MAXSTACK,                 \* registers of a function: 250
          LFIELDS_PER_FLUSH,        \* list items a SETLIST stores: 50
          LUAI_MAXCCALLS,           \* nested calls of C functions: 200
          StringLess(_, _)          \* l_strcmp: the order of strings

MAXARG_A == 2 ^ SIZE_A - 1
MAXARG_C == 2 ^ SIZE_C - 1
MAXARG_Bx == 2 ^ (SIZE_B + SIZE_C) - 1
MAXARG_sBx == MAXARG_Bx \div 2

(* Operands that are a register or a constant. *)
BITRK == 2 ^ (SIZE_B - 1)
MAXINDEXRK == BITRK - 1
ISK(x) == x >= BITRK
INDEXK(r) == r - BITRK
RKASK(x) == x + BITRK

NO_REG == MAXARG_A
NO_JUMP == -1
LUA_MULTRET == -1

ASSUME FieldsFit == /\ MAXSTACK \in 2 .. BITRK /\ MAXSTACK < NO_REG
                    /\ SIZE_B = SIZE_C /\ LFIELDS_PER_FLUSH \in 1 .. MAXSTACK

(* The opcodes in their order, each with: is it a test, does it set A, how *)
(* it uses B and C, and its format.                                        *)
OpModes == <<
  <<"MOVE", 0, 1, "R", "N", "ABC">>, <<"LOADK", 0, 1, "K", "N", "ABx">>,
  <<"LOADBOOL", 0, 1, "U", "U", "ABC">>, <<"LOADNIL", 0, 1, "R", "N", "ABC">>,
  <<"GETUPVAL", 0, 1, "U", "N", "ABC">>, <<"GETGLOBAL", 0, 1, "K", "N", "ABx">>,
  <<"GETTABLE", 0, 1, "R", "K", "ABC">>, <<"SETGLOBAL", 0, 0, "K", "N", "ABx">>,
  <<"SETUPVAL", 0, 0, "U", "N", "ABC">>, <<"SETTABLE", 0, 0, "K", "K", "ABC">>,
  <<"NEWTABLE", 0, 1, "U", "U", "ABC">>, <<"SELF", 0, 1, "R", "K", "ABC">>,
  <<"ADD", 0, 1, "K", "K", "ABC">>, <<"SUB", 0, 1, "K", "K", "ABC">>,
  <<"MUL", 0, 1, "K", "K", "ABC">>, <<"DIV", 0, 1, "K", "K", "ABC">>,
  <<"MOD", 0, 1, "K", "K", "ABC">>, <<"POW", 0, 1, "K", "K", "ABC">>,
  <<"UNM", 0, 1, "R", "N", "ABC">>, <<"NOT", 0, 1, "R", "N", "ABC">>,
  <<"LEN", 0, 1, "R", "N", "ABC">>, <<"CONCAT", 0, 1, "R", "R", "ABC">>,
  <<"JMP", 0, 0, "R", "N", "AsBx">>, <<"EQ", 1, 0, "K", "K", "ABC">>,
  <<"LT", 1, 0, "K", "K", "ABC">>, <<"LE", 1, 0, "K", "K", "ABC">>,
  <<"TEST", 1, 1, "R", "U", "ABC">>, <<"TESTSET", 1, 1, "R", "U", "ABC">>,
  <<"CALL", 0, 1, "U", "U", "ABC">>, <<"TAILCALL", 0, 1, "U", "U", "ABC">>,
  <<"RETURN", 0, 0, "U", "N", "ABC">>, <<"FORLOOP", 0, 1, "R", "N", "AsBx">>,
  <<"FORPREP", 0, 1, "R", "N", "AsBx">>, <<"TFORLOOP", 1, 0, "N", "U", "ABC">>,
  <<"SETLIST", 0, 0, "U", "U", "ABC">>, <<"CLOSE", 0, 0, "N", "N", "ABC">>,
  <<"CLOSURE", 0, 1, "U", "N", "ABx">>, <<"VARARG", 0, 1, "U", "N", "ABC">> >>

NUM_OPCODES == Len(OpModes)
OpNames == {OpModes[i][1] : i \in 1 .. NUM_OPCODES}
OpNumber == [o \in OpNames |-> CHOOSE i \in 1 .. NUM_OPCODES : OpModes[i][1] = o]
luaP_opmodes == [o \in OpNames |-> OpModes[OpNumber[o]]]
testTMode(o) == luaP_opmodes[o][2] = 1
testAMode(o) == luaP_opmodes[o][3] = 1
getBMode(o) == luaP_opmodes[o][4]
getCMode(o) == luaP_opmodes[o][5]
getOpMode(o) == luaP_opmodes[o][6]

(* CREATE_ABC, CREATE_ABx: operand Bx or sBx of an instruction is in b.    *)
(* "EXTRA" is the word with the count that may follow a SETLIST.           *)
Ins(o, a, b, c) == [op |-> o, a |-> a, b |-> b, c |-> c]

(* A word: B, C, A and the opcode, from the highest bits to the lowest;    *)
(* a signed operand is stored in excess of its largest value.              *)
Encode(i) ==
  IF i.op = "EXTRA" THEN i.b
  ELSE LET mode == getOpMode(i.op)
           high == CASE mode = "ABC" -> i.b * 2 ^ SIZE_C + i.c
                     [] mode = "ABx" -> i.b
                     [] OTHER -> i.b + MAXARG_sBx
       IN (high * 2 ^ SIZE_A + i.a) * 2 ^ 6 + OpNumber[i.op] - 1

(* GET_OPCODE, GETARG_A, GETARG_B, GETARG_C, GETARG_Bx, GETARG_sBx. *)
Decode(w) ==
  LET o == OpModes[(w % 2 ^ 6) + 1][1]
      a == (w \div 2 ^ 6) % 2 ^ SIZE_A
      high == w \div 2 ^ (6 + SIZE_A)
  IN CASE getOpMode(o) = "ABC" -> Ins(o, a, high \div 2 ^ SIZE_C, high % 2 ^ SIZE_C)
       [] getOpMode(o) = "ABx" -> Ins(o, a, high, 0)
       [] OTHER -> Ins(o, a, high - MAXARG_sBx, 0)

--------------------------------------------------------------------------------
(* Values: a tag, and what it tags.  Numbers are integers here: programs   *)
(* divide only what can be divided.                                        *)
Nil == <<"nil">>
Bool(b) == <<"bool", b>>
Num(n) == <<"num", n>>
Str(s) == <<"str", s>>
IsFalse(v) == v = Nil \/ v = Bool(FALSE)
IsNumber(v) == v[1] = "num"
IsString(v) == v[1] = "str"

Power(x, n) ==
  LET power[i \in 0 .. n] == IF i = 0 THEN 1 ELSE x * power[i - 1] IN power[n]

FloorDiv(x, y) == IF y > 0 THEN x \div y ELSE (-x) \div (-y)
(* luai_numadd and its kin; the sign of a remainder is that of the divisor. *)
Arith(o, x, y) ==
  CASE o = "ADD" -> x + y
    [] o = "SUB" -> x - y
    [] o = "MUL" -> x * y
    [] o = "DIV" -> FloorDiv(x, y)
    [] o = "MOD" -> x - FloorDiv(x, y) * y
    [] o = "POW" -> Power(x, y)
    [] o = "UNM" -> -x
================================================================================
