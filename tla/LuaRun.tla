--------------------------------- MODULE LuaRun ---------------------------------
(***************************************************************************)
(* Lua programs that run: the state of the virtual machine, and one action *)
(* for every instruction, for every function of the library and for the    *)
(* returns and errors between them.  One of the programs is run, by the    *)
(* host, without protection.                                               *)
(***************************************************************************)
EXTENDS LuaLib

CONSTANTS Programs,       \* the programs
          Compiled(_),    \* what LuaParser makes of each: a function, or an error
          Meant(_)        \* the ways each may end

File == INSTANCE LuaDump

VARIABLE machine

--------------------------------------------------------------------------------
(* lua_open, and the luaopen_ functions, which register the functions of   *)
(* the library in the globals, table 1.  "coin" is a function of the host  *)
(* that answers as it likes.                                               *)
LibraryNames == <<"emit", "error", "assert", "pcall", "type", "rawequal", "rawget", "rawset",
  "setmetatable", "getmetatable", "next", "pairs", "ipairsaux", "ipairs", "unpack", "select",
  "cocreate", "coresume", "yield", "costatus", "corunning", "cowrap",
  "tinsert", "tremove", "tconcat", "foreachi", "foreach", "maxn", "sort", "coin">>
PlaceOf(name) == CHOOSE j \in DOMAIN LibraryNames : LibraryNames[j] = name
UpvalueOf(name) == CASE name = "pairs" -> Function(PlaceOf("next"))
                     [] name = "ipairs" -> Function(PlaceOf("ipairsaux"))
                     [] OTHER -> Nil
Opened ==
  [prog |-> 0, whole |-> TRUE, protos |-> <<>>, tables |-> <<luaH_new(0, 2)>>, functions |-> <<>>, upvals |-> <<>>,
   threads |-> <<NewThread>>, cur |-> 1, C |-> <<>>, out |-> <<>>, status |-> "opening", err |-> Nil,
   caught |-> <<>>, failed |-> ""]
Registered(M, name) ==
  AddFunction(rawset(M, 1, Str(name), NewFunctionValue(M)),
              [isC |-> TRUE, f |-> name, upval |-> UpvalueOf(name)])
(* f_parser: the functions of a file, which refer to each other by their   *)
(* places in one list; those within a function come before it.             *)
RECURSIVE Listed(_, _), ListedAll(_, _)
Listed(f, before) ==
  LET inner == ListedAll(f.p, before)
  IN Append(inner.all, [f EXCEPT !.p = inner.at])
ListedAll(fs, before) ==
  LET first == Listed(fs[1], before)
      rest == ListedAll(Tail(fs), first)
  IN IF fs = <<>> THEN [all |-> before, at |-> <<>>]
     ELSE [all |-> rest.all, at |-> <<Len(first)>> \o rest.at]
(* lua_call of the main function of a program. *)
Started(M, p, protos) ==
  LET M1 == AddFunction([M EXCEPT !.prog = p, !.protos = protos, !.status = "running"],
                        [isC |-> FALSE, p |-> Len(protos), upvals |-> <<>>])
  IN luaD_call(Push(M1, <<NewFunctionValue(M)>>), Top(M), LUA_MULTRET)
Loaded(M, p, c) ==
  IF c.err # "" THEN [M EXCEPT !.prog = p, !.status = "error", !.err = Str(c.err)]
  ELSE Started(M, p, Listed(c.f, <<>>))

Init == machine = Opened
Opens ==
  /\ machine.status = "opening" /\ Len(machine.functions) < Len(LibraryNames)
  /\ machine' = Registered(machine, LibraryNames[Len(machine.functions) + 1])
Ready == machine.status = "opening" /\ Len(machine.functions) = Len(LibraryNames)

(* A program p, compiled to c, is run. *)
StartsCompiled(p, c) == machine' = Loaded(machine, p, c)
(* Script.compile: a file is compiled once, kept as lua_dump writes it, and *)
(* loaded from that.                                                       *)
StartsSaved(p, file) == machine' = Loaded(machine, p, File!luaU_undump(file))
(* The end of the saved file is missing. *)
StartsCut(p, file) ==
  \E n \in 0 .. Len(file) - 1 :
    machine' = Loaded([machine EXCEPT !.whole = FALSE], p, File!luaU_undump(SubSeq(file, 1, n)))
Starts(p, c) ==
  \/ StartsCompiled(p, c)
  \/ c.err = "" /\ StartsSaved(p, File!luaU_dump(c.f))
  \/ c.err = "" /\ StartsCut(p, File!luaU_dump(c.f))

--------------------------------------------------------------------------------
(* luaV_execute fetches an instruction and does it. *)
Executing == Running(machine) /\ machine.C # <<>> /\ CTop(machine).k = "execute"
I == Instruction(machine)
Do(ops, after) == Executing /\ I.op \in ops /\ machine' = after
M0 == Fetched(machine)

Moves ==
  \/ Do({"MOVE"}, OP_MOVE(M0, I))
  \/ Do({"LOADK"}, OP_LOADK(M0, I))
  \/ Do({"LOADBOOL"}, OP_LOADBOOL(M0, I))
  \/ Do({"LOADNIL"}, OP_LOADNIL(M0, I))
  \/ Do({"GETUPVAL"}, OP_GETUPVAL(M0, I))
  \/ Do({"SETUPVAL"}, OP_SETUPVAL(M0, I))
  \/ Do({"GETGLOBAL"}, OP_GETGLOBAL(M0, I))
  \/ Do({"SETGLOBAL"}, OP_SETGLOBAL(M0, I))
Computes ==
  \/ Do({"GETTABLE"}, OP_GETTABLE(M0, I))
  \/ Do({"SETTABLE"}, OP_SETTABLE(M0, I))
  \/ Do({"NEWTABLE"}, OP_NEWTABLE(M0, I))
  \/ Do({"SELF"}, OP_SELF(M0, I))
  \/ Do({"SETLIST"}, OP_SETLIST(M0, I))
  \/ Do({"ADD", "SUB", "MUL", "DIV", "MOD", "POW", "UNM"}, OP_ARITH(M0, I))
  \/ Do({"NOT"}, OP_NOT(M0, I))
  \/ Do({"LEN"}, OP_LEN(M0, I))
  \/ Do({"CONCAT"}, OP_CONCAT(M0, I))
Branches ==
  \/ Do({"JMP"}, OP_JMP(M0, I))
  \/ Do({"EQ"}, OP_EQ(M0, I))
  \/ Do({"LT"}, OP_LT(M0, I))
  \/ Do({"LE"}, OP_LE(M0, I))
  \/ Do({"TEST"}, OP_TEST(M0, I))
  \/ Do({"TESTSET"}, OP_TESTSET(M0, I))
  \/ Do({"FORPREP"}, OP_FORPREP(M0, I))
  \/ Do({"FORLOOP"}, OP_FORLOOP(M0, I))
  \/ Do({"TFORLOOP"}, OP_TFORLOOP(M0, I))
Calls ==
  \/ Do({"CALL"}, OP_CALL(M0, I))
  \/ Do({"TAILCALL"}, OP_TAILCALL(M0, I))
  \/ Do({"RETURN"}, OP_RETURN(M0, I))
  \/ Do({"CLOSURE"}, OP_CLOSURE(M0, I))
  \/ Do({"CLOSE"}, OP_CLOSE(M0, I))
  \/ Do({"VARARG"}, OP_VARARG(M0, I))

--------------------------------------------------------------------------------
(* A C function begins, or goes on after what it has called. *)
InC(f, after) ==
  /\ Running(machine) /\ machine.C # <<>> /\ CTop(machine).k = "C" /\ CTop(machine).f = f
  /\ machine' = after

Coin == \E b \in BOOLEAN : InC("coin", Return(machine, <<Bool(b)>>))
BaseLibrary ==
  \/ InC("emit", emit(machine))
  \/ InC("error", luaB_error(machine))
  \/ InC("assert", luaB_assert(machine))
  \/ InC("pcall", luaB_pcall(machine))
  \/ InC("type", luaB_type(machine))
  \/ InC("rawequal", luaB_rawequal(machine))
  \/ InC("rawget", luaB_rawget(machine))
  \/ InC("rawset", luaB_rawset(machine))
  \/ InC("setmetatable", luaB_setmetatable(machine))
  \/ InC("getmetatable", luaB_getmetatable(machine))
  \/ InC("next", luaB_next(machine))
  \/ InC("pairs", luaB_pairs(machine))
  \/ InC("ipairsaux", ipairsaux(machine))
  \/ InC("ipairs", luaB_ipairs(machine))
  \/ InC("unpack", luaB_unpack(machine))
  \/ InC("select", luaB_select(machine))
Coroutines ==
  \/ InC("cocreate", luaB_cocreate(machine))
  \/ InC("cowrap", luaB_cowrap(machine))
  \/ InC("coresume", luaB_coresume(machine))
  \/ InC("auxwrap", auxwrap(machine))
  \/ InC("yield", luaB_yield(machine))
  \/ InC("costatus", luaB_costatus(machine))
  \/ InC("corunning", luaB_corunning(machine))
TableLibrary ==
  \/ InC("tinsert", tinsert(machine))
  \/ InC("tremove", tremove(machine))
  \/ InC("tconcat", tconcat(machine))
  \/ InC("foreachi", foreachi(machine))
  \/ InC("foreach", foreach(machine))
  \/ InC("maxn", maxn(machine))
  \/ InC("sort", sort(machine))

(* A metamethod, or the generator of a loop, has returned. *)
Returns ==
  /\ Running(machine) /\ machine.C # <<>> /\ CTop(machine).k = "tm"
  /\ machine' = AfterCall(machine)

(* An error has come to the call that protects from it. *)
Caught(f) == machine.status = "running" /\ machine.caught # <<>> /\ CTop(machine).f = f
Catches ==
  \/ Caught("pcall") /\ machine' = PcallCaught(machine)
  \/ \E f \in {"coresume", "auxwrap"} : Caught(f) /\ machine' = ResumeCaught(machine)

(* The file has been run; the host has its stack back. *)
Ends ==
  /\ Running(machine) /\ machine.C = <<>>
  /\ machine' = [machine EXCEPT !.status = "ok"]

Next ==
  \/ Opens
  \/ Ready /\ \E p \in Programs : Starts(p, Compiled(p))
  \/ Moves \/ Computes \/ Branches \/ Calls
  \/ Coin \/ BaseLibrary \/ Coroutines \/ TableLibrary
  \/ Returns \/ Catches \/ Ends

Spec == Init /\ [][Next]_machine

--------------------------------------------------------------------------------
(* Properties. *)
Ended == machine.status \in {"ok", "error", "undefined"}
Ending == [status |-> machine.status, err |-> machine.err, out |-> machine.out]

(* A program prints what it means and ends as it should, compiled just now *)
(* or loaded from its dump: the compiler, the code checker, the dump and   *)
(* the machine lose nothing of it.                                         *)
AsWritten == Ended /\ machine.whole => Ending \in Meant(machine.prog)

(* A file whose end is missing is refused as a whole (lundump.c:35): no    *)
(* part of it runs.                                                        *)
CutIsRefused == Ended /\ ~machine.whole => machine.status = "error" /\ machine.out = <<>>
                                            /\ machine.threads = Opened.threads

(* What lua_assert says in luaV_execute (lvm.c:394-396), before every      *)
(* instruction, in calls and in lua_resume.                                *)
Asserted ==
  /\ machine.failed = "" /\ machine.status # "undefined"
  /\ Executing => /\ L(machine).base = CI(machine).base
                  /\ L(machine).base <= Top(machine)
                  /\ (Top(machine) = CI(machine).top \/ File!luaG_checkopenop(I))

(* The open upvalues of a stack are listed from top to bottom, each once,  *)
(* and each is a local variable whose block is being executed, in the      *)
(* frame it lies in: when a block is left its variables are closed,        *)
(* whichever way it is left.                                               *)
FrameOf(th, level) == CHOOSE k \in DOMAIN th.ci : /\ th.ci[k].base <= level
                                                   /\ (k = Len(th.ci) \/ level < th.ci[k + 1].base)
IsLocal(th, level) ==
  LET k == FrameOf(th, level)
      f == machine.functions[SlotOf(th, th.ci[k].func)[2]]
      now == IF k = Len(th.ci) THEN th.savedpc ELSE th.ci[k].savedpc
      locals == {x \in DOMAIN machine.protos[f.p].locvars :
                   LET v == machine.protos[f.p].locvars[x] IN v.startpc <= now /\ now <= v.endpc}
  IN ~f.isC /\ level - th.ci[k].base < Cardinality(locals)
UpvaluesLive ==
  \A t \in DOMAIN machine.threads :
    LET th == machine.threads[t]
        level(j) == machine.upvals[th.openupval[j]].level
    IN \A j \in DOMAIN th.openupval :
         /\ machine.upvals[th.openupval[j]].open /\ machine.upvals[th.openupval[j]].thread = t
         /\ j > 1 => level(j) < level(j - 1)
         /\ IsLocal(th, level(j))

(* No step changes what lies below the frame of a stack, but for variables *)
(* that are upvalues, and for an error, which removes the frame.           *)
FramesApart ==
  [][\A t \in DOMAIN machine.threads :
       LET th == machine.threads[t]
           open == {machine.upvals[th.openupval[j]].level : j \in DOMAIN th.openupval}
       IN \/ machine.caught # <<>>
          \/ \A i \in 0 .. th.ci[Len(th.ci)].func - 1 :
               i \in open \/ SlotOf(machine'.threads[t], i) = SlotOf(th, i)]_machine

(* sort moves the values of a table and loses none, whatever the function  *)
(* it is given answers, and whatever it raises.                            *)
Times(t, v) == Cardinality({k \in Keys(t) : luaH_get(t, k) = v})
SameValues(t, s) == \A k \in Keys(t) : LET v == luaH_get(t, k) IN Times(t, v) = Times(s, v)
Sorting == Running(machine) /\ machine.C # <<>> /\ CTop(machine).k = "C" /\ CTop(machine).f = "sort"
SortKeepsAll ==
  [][Sorting => LET v == Slot(machine, CI(machine).base)
                IN IsTable(v) => SameValues(machine.tables[v[2]], machine'.tables[v[2]])]_machine
================================================================================
