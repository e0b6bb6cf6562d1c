--------------------------------- MODULE MCLuaVM --------------------------------
(* Lua programs, as the syntax trees of LuaSemantics, each with its text in *)
(* a comment, and small limits: 15 registers, 16 constants an operand       *)
(* reaches, 2 items in a SETLIST, 8 calls on a Lua stack before it grows,   *)
(* 12 calls on the C stack.                                                 *)
EXTENDS LuaRun, TLC

CONSTANTS LUAI_MAXVARS, LUAI_MAXUPVALUES

(* Expressions and statements. *)
N(n) == <<"num", n>>
S(s) == <<"str", s>>
NIL == <<"nil">>
TT == <<"true">>
FF == <<"false">>
DOTS == <<"...">>
V(x) == <<"name", x>>
At(e, k) == <<"index", e, k>>
Dot(e, name) == At(e, S(name))
CallE(e, args) == <<"call", e, args>>
Call(f, args) == CallE(V(f), args)
Method(e, name, args) == <<"method", e, name, args>>
Fun(params, b) == <<"fun", params, FALSE, b>>
VarFun(params, b) == <<"fun", params, TRUE, b>>
Bin(e1, o, e2) == <<"bin", o, e1, e2>>
Un(o, e) == <<"un", o, e>>
Par(e) == <<"paren", e>>
Tab(fields) == <<"table", fields>>
Local(xs, es) == <<"local", xs, es>>
LocalFun(x, f) == <<"localfun", x, f>>
Set(lhs, es) == <<"assign", lhs, es>>
DoBlock(b) == <<"do", b>>
While(e, b) == <<"while", e, b>>
Repeat(b, e) == <<"repeat", b, e>>
If(cases, b) == <<"if", cases, b>>
For(x, es, b) == <<"for", x, es, b>>
ForIn(xs, es, b) == <<"forin", xs, es, b>>
ReturnS(es) == <<"return", es>>
BREAK == <<"break">>
--------------------------------------------------------------------------------
(*
   local fs = {}
   for i = 1, 2 do
     local j = i
     fs[i] = function(d) j = j + d; i = i + 1; return j + i end
   end
   emit(fs[1](1), fs[2](2), fs[1](1))
   while true do
     local k = 1
     fs[3] = function() k = k + 1; return k end
     if fs[1] then break end
   end
   emit(fs[3](), fs[3]())
*)
closures ==
  <<Local(<<"fs">>, <<Tab(<<>>)>>),
    For("i", <<N(1), N(2)>>,
      <<Local(<<"j">>, <<V("i")>>),
        Set(<<At(V("fs"), V("i"))>>,
          <<Fun(<<"d">>, <<Set(<<V("j")>>, <<Bin(V("j"), "+", V("d"))>>),
                           Set(<<V("i")>>, <<Bin(V("i"), "+", N(1))>>),
                           ReturnS(<<Bin(V("j"), "+", V("i"))>>)>>)>>)>>),
    Call("emit", <<CallE(At(V("fs"), N(1)), <<N(1)>>),
                   CallE(At(V("fs"), N(2)), <<N(2)>>),
                   CallE(At(V("fs"), N(1)), <<N(1)>>)>>),
    While(TT, <<Local(<<"k">>, <<N(1)>>),
                Set(<<At(V("fs"), N(3))>>,
                  <<Fun(<<>>, <<Set(<<V("k")>>, <<Bin(V("k"), "+", N(1))>>), ReturnS(<<V("k")>>)>>)>>),
                If(<<<<At(V("fs"), N(1)), <<BREAK>>>>>>, <<>>)>>),
    Call("emit", <<CallE(At(V("fs"), N(3)), <<>>), CallE(At(V("fs"), N(3)), <<>>)>>)>>
--------------------------------------------------------------------------------
(*
   local x, g = 5
   local function set(v) x = v end
   local function f(y)
     g = function() y = y + 1; return y, x end
     return set(y * 2)
   end
   f(3)
   emit(x, g())
   do local z = x; f = function() z = z + x; return function() return z end end end
   local h = f()
   emit(f()(), h())
*)
shared ==
  <<Local(<<"x", "g">>, <<N(5)>>),
    LocalFun("set", Fun(<<"v">>, <<Set(<<V("x")>>, <<V("v")>>)>>)),
    LocalFun("f", Fun(<<"y">>, <<Set(<<V("g")>>, <<Fun(<<>>, <<Set(<<V("y")>>, <<Bin(V("y"), "+", N(1))>>),
                                                               ReturnS(<<V("y"), V("x")>>)>>)>>),
                                 ReturnS(<<Call("set", <<Bin(V("y"), "*", N(2))>>)>>)>>)),
    Call("f", <<N(3)>>),
    Call("emit", <<V("x"), Call("g", <<>>)>>),
    DoBlock(<<Local(<<"z">>, <<V("x")>>),
         Set(<<V("f")>>, <<Fun(<<>>, <<Set(<<V("z")>>, <<Bin(V("z"), "+", V("x"))>>),
                                       ReturnS(<<Fun(<<>>, <<ReturnS(<<V("z")>>)>>)>>)>>)>>)>>),
    Local(<<"h">>, <<Call("f", <<>>)>>),
    Call("emit", <<CallE(Call("f", <<>>), <<>>), Call("h", <<>>)>>)>>
--------------------------------------------------------------------------------
(*
   local function f(a, ...)
     local b, c = ...
     return {n = select("#", ...), a, ...}, c, ...
   end
   local t, c = f(1, 2, nil, 4)
   emit(t.n, t[2], t[4], c, (f(7)))
   emit(f(7, 8), select(2, f(1, "x")))
*)
varargs ==
  <<LocalFun("f", VarFun(<<"a">>, <<Local(<<"b", "c">>, <<DOTS>>),
                                    ReturnS(<<Tab(<<<<S("n"), Call("select", <<S("#"), DOTS>>)>>,
                                                   <<V("a")>>,
                                                   <<DOTS>>>>),
                                             V("c"),
                                             DOTS>>)>>)),
    Local(<<"t", "c">>, <<Call("f", <<N(1), N(2), NIL, N(4)>>)>>),
    Call("emit", <<Dot(V("t"), "n"),
                   At(V("t"), N(2)),
                   At(V("t"), N(4)),
                   V("c"),
                   Par(Call("f", <<N(7)>>))>>),
    Call("emit", <<Call("f", <<N(7), N(8)>>), Call("select", <<N(2), Call("f", <<N(1), S("x")>>)>>)>>)>>
--------------------------------------------------------------------------------
(*
   local function loop(n, acc)
     if n == 0 then return acc, n end
     return loop(n - 1, acc + n)
   end
   o = setmetatable({v = 5}, {__call = function(self, a, b) return self.v + a, b end})
   o.m = function(self, k) return k(self.v, 1) end
   emit(loop(20, 0))
   emit(o:m(loop), o(1, 2))
   emit(pcall(o, 1), (o(3)))
*)
calls ==
  <<LocalFun("loop", Fun(<<"n", "acc">>, <<If(<<<<Bin(V("n"), "==", N(0)),
                                                  <<ReturnS(<<V("acc"), V("n")>>)>>>>>>, <<>>),
                                           ReturnS(<<Call("loop", <<Bin(V("n"), "-", N(1)),
                                                                   Bin(V("acc"), "+", V("n"))>>)>>)>>)),
    Set(<<V("o")>>, <<Call("setmetatable", <<Tab(<<<<S("v"), N(5)>>>>),
                                             Tab(<<<<S("__call"),
                                                     Fun(<<"self", "a", "b">>,
                                                       <<ReturnS(<<Bin(Dot(V("self"), "v"), "+", V("a")),
                                                                  V("b")>>)>>)>>>>)>>)>>),
    Set(<<Dot(V("o"), "m")>>,
      <<Fun(<<"self", "k">>, <<ReturnS(<<Call("k", <<Dot(V("self"), "v"), N(1)>>)>>)>>)>>),
    Call("emit", <<Call("loop", <<N(20), N(0)>>)>>),
    Call("emit", <<Method(V("o"), "m", <<V("loop")>>), Call("o", <<N(1), N(2)>>)>>),
    Call("emit", <<Call("pcall", <<V("o"), N(1)>>), Par(Call("o", <<N(3)>>))>>)>>
--------------------------------------------------------------------------------
(*
   local mt = {__index = function(t, k) return k .. "!" end}
   mt.__add = function(a, b) return rawequal(b, 1) end
   mt.__lt = function(a, b) return rawget(a, 1) < rawget(b, 1) end
   mt.__eq = function(a, b) return "yes" end
   mt.__concat = function(a, b) return type(a) end
   mt.__len = function(a) return 9 end
   mt.__unm = function(a) return setmetatable(a, nil) end
   local a, b = setmetatable({1}, mt), setmetatable({2}, mt)
   emit(a + 1, 1 + a, a < b, a <= b, a > b, a == b, a ~= b)
   emit("x" .. "y" .. a .. "z", a.q, #a, a["1"])
   mt.__newindex = {}
   a.q = 2
   emit(rawget(a, "q"), mt.__newindex.q, -a == a, a.q)
*)
meta ==
  <<Local(<<"mt">>, <<Tab(<<<<S("__index"),
                              Fun(<<"t", "k">>, <<ReturnS(<<Bin(V("k"), "..", S("!"))>>)>>)>>>>)>>),
    Set(<<Dot(V("mt"), "__add")>>,
      <<Fun(<<"a", "b">>, <<ReturnS(<<Call("rawequal", <<V("b"), N(1)>>)>>)>>)>>),
    Set(<<Dot(V("mt"), "__lt")>>,
      <<Fun(<<"a", "b">>, <<ReturnS(<<Bin(Call("rawget", <<V("a"), N(1)>>), "<",
                                       Call("rawget", <<V("b"), N(1)>>))>>)>>)>>),
    Set(<<Dot(V("mt"), "__eq")>>, <<Fun(<<"a", "b">>, <<ReturnS(<<S("yes")>>)>>)>>),
    Set(<<Dot(V("mt"), "__concat")>>, <<Fun(<<"a", "b">>, <<ReturnS(<<Call("type", <<V("a")>>)>>)>>)>>),
    Set(<<Dot(V("mt"), "__len")>>, <<Fun(<<"a">>, <<ReturnS(<<N(9)>>)>>)>>),
    Set(<<Dot(V("mt"), "__unm")>>,
      <<Fun(<<"a">>, <<ReturnS(<<Call("setmetatable", <<V("a"), NIL>>)>>)>>)>>),
    Local(<<"a", "b">>, <<Call("setmetatable", <<Tab(<<<<N(1)>>>>), V("mt")>>),
                          Call("setmetatable", <<Tab(<<<<N(2)>>>>), V("mt")>>)>>),
    Call("emit", <<Bin(V("a"), "+", N(1)),
                   Bin(N(1), "+", V("a")),
                   Bin(V("a"), "<", V("b")),
                   Bin(V("a"), "<=", V("b")),
                   Bin(V("a"), ">", V("b")),
                   Bin(V("a"), "==", V("b")),
                   Bin(V("a"), "~=", V("b"))>>),
    Call("emit", <<Bin(S("x"), "..", Bin(S("y"), "..", Bin(V("a"), "..", S("z")))),
                   Dot(V("a"), "q"),
                   Un("#", V("a")),
                   Dot(V("a"), "1")>>),
    Set(<<Dot(V("mt"), "__newindex")>>, <<Tab(<<>>)>>),
    Set(<<Dot(V("a"), "q")>>, <<N(2)>>),
    Call("emit", <<Call("rawget", <<V("a"), S("q")>>),
                   Dot(Dot(V("mt"), "__newindex"), "q"),
                   Bin(Un("-", V("a")), "==", V("a")),
                   Dot(V("a"), "q")>>)>>
--------------------------------------------------------------------------------
(*
   local mt = {}
   local t = setmetatable({}, setmetatable(mt, {__newindex = function(m, k, v) rawset(m, k, v) end}))
   emit(t.x)
   mt.__index = function(t, k) return 1 end
   emit(t.x, t == setmetatable({}, mt))
   rawset(mt, "__eq", function(a, b) return true end)
   emit(t == setmetatable({}, mt))
   mt.__index = nil
   emit(t.x)
   mt.__index = {x = 7}
   emit(t.x)
   mt.__newindex, mt.x = {}, 3
   t.x = 4
   emit(t.x, rawget(t, "x"), mt.__newindex.x, mt.x)
*)
flags ==
  <<Local(<<"mt">>, <<Tab(<<>>)>>),
    Local(<<"t">>, <<Call("setmetatable", <<Tab(<<>>),
                                            Call("setmetatable", <<V("mt"),
                                                                   Tab(<<<<S("__newindex"),
                                                                           Fun(<<"m", "k", "v">>, <<Call("rawset", <<V("m"),
                                                                                                                     V("k"),
                                                                                                                     V("v")>>)>>)>>>>)>>)>>)>>),
    Call("emit", <<Dot(V("t"), "x")>>),
    Set(<<Dot(V("mt"), "__index")>>, <<Fun(<<"t", "k">>, <<ReturnS(<<N(1)>>)>>)>>),
    Call("emit", <<Dot(V("t"), "x"), Bin(V("t"), "==", Call("setmetatable", <<Tab(<<>>), V("mt")>>))>>),
    Call("rawset", <<V("mt"), S("__eq"), Fun(<<"a", "b">>, <<ReturnS(<<TT>>)>>)>>),
    Call("emit", <<Bin(V("t"), "==", Call("setmetatable", <<Tab(<<>>), V("mt")>>))>>),
    Set(<<Dot(V("mt"), "__index")>>, <<NIL>>),
    Call("emit", <<Dot(V("t"), "x")>>),
    Set(<<Dot(V("mt"), "__index")>>, <<Tab(<<<<S("x"), N(7)>>>>)>>),
    Call("emit", <<Dot(V("t"), "x")>>),
    Set(<<Dot(V("mt"), "__newindex"), Dot(V("mt"), "x")>>, <<Tab(<<>>), N(3)>>),
    Set(<<Dot(V("t"), "x")>>, <<N(4)>>),
    Call("emit", <<Dot(V("t"), "x"),
                   Call("rawget", <<V("t"), S("x")>>),
                   Dot(Dot(V("mt"), "__newindex"), "x"),
                   Dot(V("mt"), "x")>>)>>
--------------------------------------------------------------------------------
(*
   local n = 0
   local function bad(f, ...) n = n + 1; return select("#", pcall(f, ...)), pcall(f, ...) end
   emit(bad(error, {}), bad(error, "e"))
   emit(bad(function(x) return x.y end), bad(function() n = n + {} end), bad(5))
   emit(bad(function() for i = 1, {} do end end), bad(function() return {} < {} end))
   local get
   emit(pcall(function() local v = 1; get = function() v = v + n; return v end; get(); error("x") end))
   emit(get(), pcall(pcall, error, 3))
   emit(pcall(function() return setmetatable({}, {__index = function(t, k) error(k) end}).q end))
   error(n)
*)
errors ==
  <<Local(<<"n">>, <<N(0)>>),
    LocalFun("bad", VarFun(<<"f">>, <<Set(<<V("n")>>, <<Bin(V("n"), "+", N(1))>>),
                                      ReturnS(<<Call("select", <<S("#"),
                                                                Call("pcall", <<V("f"), DOTS>>)>>),
                                               Call("pcall", <<V("f"), DOTS>>)>>)>>)),
    Call("emit", <<Call("bad", <<V("error"), Tab(<<>>)>>), Call("bad", <<V("error"), S("e")>>)>>),
    Call("emit", <<Call("bad", <<Fun(<<"x">>, <<ReturnS(<<Dot(V("x"), "y")>>)>>)>>),
                   Call("bad", <<Fun(<<>>, <<Set(<<V("n")>>, <<Bin(V("n"), "+", Tab(<<>>))>>)>>)>>),
                   Call("bad", <<N(5)>>)>>),
    Call("emit", <<Call("bad", <<Fun(<<>>, <<For("i", <<N(1), Tab(<<>>)>>, <<>>)>>)>>),
                   Call("bad", <<Fun(<<>>, <<ReturnS(<<Bin(Tab(<<>>), "<", Tab(<<>>))>>)>>)>>)>>),
    Local(<<"get">>, <<>>),
    Call("emit", <<Call("pcall", <<Fun(<<>>, <<Local(<<"v">>, <<N(1)>>),
                                               Set(<<V("get")>>, <<Fun(<<>>, <<Set(<<V("v")>>, <<Bin(V("v"), "+", V("n"))>>),
                                                                               ReturnS(<<V("v")>>)>>)>>),
                                               Call("get", <<>>),
                                               Call("error", <<S("x")>>)>>)>>)>>),
    Call("emit", <<Call("get", <<>>), Call("pcall", <<V("pcall"), V("error"), N(3)>>)>>),
    Call("emit", <<Call("pcall", <<Fun(<<>>, <<ReturnS(<<Dot(Call("setmetatable", <<Tab(<<>>),
                                                                                   Tab(<<<<S("__index"),
                                                                                           Fun(<<"t",
                                                                                                 "k">>, <<Call("error", <<V("k")>>)>>)>>>>)>>),
                                                          "q")>>)>>)>>)>>),
    Call("error", <<V("n")>>)>>
--------------------------------------------------------------------------------
(*
   local function deep(n) local r = deep(n + 1); return r end
   emit(pcall(deep, 1))
   local function fall(n) if n > 0 then return pcall(fall, n - 1) end return "end" end
   emit(fall(2))
   emit(fall(14))
   local function low(n)
     if n == 0 then return pcall(deep, 1) end
     local a, b = low(n - 1)
     return a, b
   end
   emit(low(11))
   emit(pcall(deep, 1))
   emit(pcall(deep, 1))
   local function tail(n) if n > 0 then return tail(n - 1) end return low(n) end
   emit(tail(15))
   deep(1)
*)
overflow ==
  <<LocalFun("deep", Fun(<<"n">>, <<Local(<<"r">>, <<Call("deep", <<Bin(V("n"), "+", N(1))>>)>>),
                                    ReturnS(<<V("r")>>)>>)),
    Call("emit", <<Call("pcall", <<V("deep"), N(1)>>)>>),
    LocalFun("fall", Fun(<<"n">>, <<If(<<<<Bin(V("n"), ">", N(0)),
                                           <<ReturnS(<<Call("pcall", <<V("fall"),
                                                                      Bin(V("n"), "-", N(1))>>)>>)>>>>>>,
                                      <<>>),
                                    ReturnS(<<S("end")>>)>>)),
    Call("emit", <<Call("fall", <<N(2)>>)>>),
    Call("emit", <<Call("fall", <<N(14)>>)>>),
    LocalFun("low", Fun(<<"n">>, <<If(<<<<Bin(V("n"), "==", N(0)),
                                          <<ReturnS(<<Call("pcall", <<V("deep"), N(1)>>)>>)>>>>>>, <<>>),
                                   Local(<<"a", "b">>, <<Call("low", <<Bin(V("n"), "-", N(1))>>)>>),
                                   ReturnS(<<V("a"), V("b")>>)>>)),
    Call("emit", <<Call("low", <<N(11)>>)>>),
    Call("emit", <<Call("pcall", <<V("deep"), N(1)>>)>>),
    Call("emit", <<Call("pcall", <<V("deep"), N(1)>>)>>),
    LocalFun("tail", Fun(<<"n">>, <<If(<<<<Bin(V("n"), ">", N(0)),
                                           <<ReturnS(<<Call("tail", <<Bin(V("n"), "-", N(1))>>)>>)>>>>>>,
                                      <<>>),
                                    ReturnS(<<Call("low", <<V("n")>>)>>)>>)),
    Call("emit", <<Call("tail", <<N(15)>>)>>),
    Call("deep", <<N(1)>>)>>
--------------------------------------------------------------------------------
(*
   local t = setmetatable({}, {})
   getmetatable(t).__index = function(t, k) return t[k + 1] end
   emit(pcall(function() return t[1] end))
   getmetatable(t).__index = t
   emit(pcall(function() return t.x end))
   getmetatable(t).__newindex = t
   emit(pcall(function() t.x = 1 end))
*)
handling ==
  <<Local(<<"t">>, <<Call("setmetatable", <<Tab(<<>>), Tab(<<>>)>>)>>),
    Set(<<Dot(Call("getmetatable", <<V("t")>>), "__index")>>,
      <<Fun(<<"t", "k">>, <<ReturnS(<<At(V("t"), Bin(V("k"), "+", N(1)))>>)>>)>>),
    Call("emit", <<Call("pcall", <<Fun(<<>>, <<ReturnS(<<At(V("t"), N(1))>>)>>)>>)>>),
    Set(<<Dot(Call("getmetatable", <<V("t")>>), "__index")>>, <<V("t")>>),
    Call("emit", <<Call("pcall", <<Fun(<<>>, <<ReturnS(<<Dot(V("t"), "x")>>)>>)>>)>>),
    Set(<<Dot(Call("getmetatable", <<V("t")>>), "__newindex")>>, <<V("t")>>),
    Call("emit", <<Call("pcall", <<Fun(<<>>, <<Set(<<Dot(V("t"), "x")>>, <<N(1)>>)>>)>>)>>)>>
--------------------------------------------------------------------------------
(*
   local co
   co = cocreate(function(a, b)
     local c = yield(a + b, costatus(co), corunning() == co)
     emit(coresume(co), c)
     local d, e = yield()
     local inner = cocreate(function() emit(costatus(co)); yield(5); error("in") end)
     emit(coresume(inner), coresume(inner), coresume(inner))
     return d, e
   end)
   emit(coresume(co, 1, 2))
   emit(coresume(co, 7), costatus(co))
   emit(coresume(co, 8, nil))
   emit(costatus(co), coresume(co), corunning())
*)
coroutine ==
  <<Local(<<"co">>, <<>>),
    Set(<<V("co")>>, <<Call("cocreate", <<Fun(<<"a", "b">>, <<Local(<<"c">>, <<Call("yield", <<Bin(V("a"), "+", V("b")),
                                                                                               Call("costatus", <<V("co")>>),
                                                                                               Bin(Call("corunning", <<>>),
                                                                                                 "==", V("co"))>>)>>),
                                                              Call("emit", <<Call("coresume", <<V("co")>>),
                                                                             V("c")>>),
                                                              Local(<<"d", "e">>, <<Call("yield", <<>>)>>),
                                                              Local(<<"inner">>, <<Call("cocreate", <<Fun(<<>>, <<Call("emit", <<Call("costatus", <<V("co")>>)>>),
                                                                                                                  Call("yield", <<N(5)>>),
                                                                                                                  Call("error", <<S("in")>>)>>)>>)>>),
                                                              Call("emit", <<Call("coresume", <<V("inner")>>),
                                                                             Call("coresume", <<V("inner")>>),
                                                                             Call("coresume", <<V("inner")>>)>>),
                                                              ReturnS(<<V("d"), V("e")>>)>>)>>)>>),
    Call("emit", <<Call("coresume", <<V("co"), N(1), N(2)>>)>>),
    Call("emit", <<Call("coresume", <<V("co"), N(7)>>), Call("costatus", <<V("co")>>)>>),
    Call("emit", <<Call("coresume", <<V("co"), N(8), NIL>>)>>),
    Call("emit", <<Call("costatus", <<V("co")>>),
                   Call("coresume", <<V("co")>>),
                   Call("corunning", <<>>)>>)>>
--------------------------------------------------------------------------------
(*
   local function gen(n)
     local k = 0
     return cowrap(function(...)
       for i = n, 1, -1 do k = k + i; yield(i, k) end
       k = k + select("#", ...)
       error(k)
     end)
   end
   local s, g = 0, gen(2)
   for i, k in gen(2) do s = s * 10 + i + k; if i < 2 then break end end
   emit(s, g(1, 1), g(0))
   emit(pcall(g, 1))
   emit(pcall(g))
*)
wrap ==
  <<LocalFun("gen", Fun(<<"n">>, <<Local(<<"k">>, <<N(0)>>),
                                   ReturnS(<<Call("cowrap", <<VarFun(<<>>, <<For("i", <<V("n"),
                                                                                       N(1),
                                                                                       Un("-", N(1))>>,
                                                                              <<Set(<<V("k")>>, <<Bin(V("k"), "+", V("i"))>>),
                                                                                Call("yield", <<V("i"),
                                                                                                V("k")>>)>>),
                                                                            Set(<<V("k")>>, <<Bin(V("k"), "+", Call("select", <<S("#"),
                                                                                                                                DOTS>>))>>),
                                                                            Call("error", <<V("k")>>)>>)>>)>>)>>)),
    Local(<<"s", "g">>, <<N(0), Call("gen", <<N(2)>>)>>),
    ForIn(<<"i", "k">>, <<Call("gen", <<N(2)>>)>>,
      <<Set(<<V("s")>>, <<Bin(Bin(Bin(V("s"), "*", N(10)), "+", V("i")), "+", V("k"))>>),
        If(<<<<Bin(V("i"), "<", N(2)), <<BREAK>>>>>>, <<>>)>>),
    Call("emit", <<V("s"), Call("g", <<N(1), N(1)>>), Call("g", <<N(0)>>)>>),
    Call("emit", <<Call("pcall", <<V("g"), N(1)>>)>>),
    Call("emit", <<Call("pcall", <<V("g")>>)>>)>>
--------------------------------------------------------------------------------
(*
   local co = cocreate(function()
     emit(pcall(yield, 1))
     emit(pcall(sort, {1, 2}, function() yield(2) end))
     local t = setmetatable({}, {__index = function() yield(3) end})
     local v = 1
     local up = cocreate(function() v = v + 1; yield(v); v = v + 1 end)
     coresume(up)
     yield(v)
     coresume(up)
     return v, t.x
   end)
   emit(coresume(co))
   emit(coresume(co))
   emit(costatus(co), coresume(co))
   yield(1)
*)
across ==
  <<Local(<<"co">>, <<Call("cocreate", <<Fun(<<>>, <<Call("emit", <<Call("pcall", <<V("yield"), N(1)>>)>>),
                                                     Call("emit", <<Call("pcall", <<V("sort"),
                                                                                    Tab(<<<<N(1)>>,
                                                                                          <<N(2)>>>>),
                                                                                    Fun(<<>>, <<Call("yield", <<N(2)>>)>>)>>)>>),
                                                     Local(<<"t">>, <<Call("setmetatable", <<Tab(<<>>),
                                                                                             Tab(<<<<S("__index"),
                                                                                                     Fun(<<>>, <<Call("yield", <<N(3)>>)>>)>>>>)>>)>>),
                                                     Local(<<"v">>, <<N(1)>>),
                                                     Local(<<"up">>, <<Call("cocreate", <<Fun(<<>>, <<Set(<<V("v")>>, <<Bin(V("v"), "+", N(1))>>),
                                                                                                      Call("yield", <<V("v")>>),
                                                                                                      Set(<<V("v")>>, <<Bin(V("v"), "+", N(1))>>)>>)>>)>>),
                                                     Call("coresume", <<V("up")>>),
                                                     Call("yield", <<V("v")>>),
                                                     Call("coresume", <<V("up")>>),
                                                     ReturnS(<<V("v"), Dot(V("t"), "x")>>)>>)>>)>>),
    Call("emit", <<Call("coresume", <<V("co")>>)>>),
    Call("emit", <<Call("coresume", <<V("co")>>)>>),
    Call("emit", <<Call("costatus", <<V("co")>>), Call("coresume", <<V("co")>>)>>),
    Call("yield", <<N(1)>>)>>
--------------------------------------------------------------------------------
(*
   local s = {}
   for i = 5, 1, -2 do s[#s + 1] = i end
   for i = 1, 0 do s[#s + 1] = "never" end
   repeat local n = #s; s[n] = nil until n < 3
   emit(s[1], #s)
   local i = 0
   while i < 9 do i = i + 1; if i == 2 then i = 5 elseif i > 6 then break else emit(i) end end
   local t = {1, 2, a = 3, b = 4}
   for k, v in pairs(t) do i = i + v; t[k] = nil end
   emit(i, next(t))
   for k, v in next, {5} do emit(k, v); break end
*)
loops ==
  <<Local(<<"s">>, <<Tab(<<>>)>>),
    For("i", <<N(5), N(1), Un("-", N(2))>>,
      <<Set(<<At(V("s"), Bin(Un("#", V("s")), "+", N(1)))>>, <<V("i")>>)>>),
    For("i", <<N(1), N(0)>>, <<Set(<<At(V("s"), Bin(Un("#", V("s")), "+", N(1)))>>, <<S("never")>>)>>),
    Repeat(<<Local(<<"n">>, <<Un("#", V("s"))>>), Set(<<At(V("s"), V("n"))>>, <<NIL>>)>>,
      Bin(V("n"), "<", N(3))),
    Call("emit", <<At(V("s"), N(1)), Un("#", V("s"))>>),
    Local(<<"i">>, <<N(0)>>),
    While(Bin(V("i"), "<", N(9)),
      <<Set(<<V("i")>>, <<Bin(V("i"), "+", N(1))>>),
        If(<<<<Bin(V("i"), "==", N(2)), <<Set(<<V("i")>>, <<N(5)>>)>>>>,
             <<Bin(V("i"), ">", N(6)), <<BREAK>>>>>>, <<Call("emit", <<V("i")>>)>>)>>),
    Local(<<"t">>, <<Tab(<<<<N(1)>>, <<N(2)>>, <<S("a"), N(3)>>, <<S("b"), N(4)>>>>)>>),
    ForIn(<<"k", "v">>, <<Call("pairs", <<V("t")>>)>>,
      <<Set(<<V("i")>>, <<Bin(V("i"), "+", V("v"))>>), Set(<<At(V("t"), V("k"))>>, <<NIL>>)>>),
    Call("emit", <<V("i"), Call("next", <<V("t")>>)>>),
    ForIn(<<"k", "v">>, <<V("next"), Tab(<<<<N(5)>>>>)>>, <<Call("emit", <<V("k"), V("v")>>), BREAK>>)>>
--------------------------------------------------------------------------------
(*
   local t, f, n, one = true, false, nil, 1
   emit(t and 1 or 2, f and 1 or 2, n or f, f or n, not (t and n), n and t, t and f)
   emit(one == 1, one < 2 and 2 < 3, not (one <= 0) or error("x"), one == 2 or 3, (one > 0) == t)
   local x = f or one and n
   local y = one ~= 2 and (one < 1 or n == f or one)
   emit(x, y, one and (t or n), not not one, not (t or f) == f)
   if not (f or n) and (t and one) then emit("then") else emit("else") end
   while f or n do end
*)
operators ==
  <<Local(<<"t", "f", "n", "one">>, <<TT, FF, NIL, N(1)>>),
    Call("emit", <<Bin(Bin(V("t"), "and", N(1)), "or", N(2)),
                   Bin(Bin(V("f"), "and", N(1)), "or", N(2)),
                   Bin(V("n"), "or", V("f")),
                   Bin(V("f"), "or", V("n")),
                   Un("not", Par(Bin(V("t"), "and", V("n")))),
                   Bin(V("n"), "and", V("t")),
                   Bin(V("t"), "and", V("f"))>>),
    Call("emit", <<Bin(V("one"), "==", N(1)),
                   Bin(Bin(V("one"), "<", N(2)), "and", Bin(N(2), "<", N(3))),
                   Bin(Un("not", Par(Bin(V("one"), "<=", N(0)))), "or", Call("error", <<S("x")>>)),
                   Bin(Bin(V("one"), "==", N(2)), "or", N(3)),
                   Bin(Par(Bin(V("one"), ">", N(0))), "==", V("t"))>>),
    Local(<<"x">>, <<Bin(V("f"), "or", Bin(V("one"), "and", V("n")))>>),
    Local(<<"y">>, <<Bin(Bin(V("one"), "~=", N(2)), "and",
                       Par(Bin(Bin(Bin(V("one"), "<", N(1)), "or", Bin(V("n"), "==", V("f"))), "or",
                             V("one"))))>>),
    Call("emit", <<V("x"),
                   V("y"),
                   Bin(V("one"), "and", Par(Bin(V("t"), "or", V("n")))),
                   Un("not", Un("not", V("one"))),
                   Bin(Un("not", Par(Bin(V("t"), "or", V("f")))), "==", V("f"))>>),
    If(<<<<Bin(Un("not", Par(Bin(V("f"), "or", V("n")))), "and", Par(Bin(V("t"), "and", V("one")))),
           <<Call("emit", <<S("then")>>)>>>>>>, <<Call("emit", <<S("else")>>)>>),
    While(Bin(V("f"), "or", V("n")), <<>>)>>
--------------------------------------------------------------------------------
(*
   local f = false
   do local z = 5 end
   if f then local b end
   local d
   local e, g
   emit(d, e, g)
*)
jumps ==
  <<Local(<<"f">>, <<FF>>),
    DoBlock(<<Local(<<"z">>, <<N(5)>>)>>),
    If(<<<<V("f"), <<Local(<<"b">>, <<>>)>>>>>>, <<>>),
    Local(<<"d">>, <<>>),
    Local(<<"e", "g">>, <<>>),
    Call("emit", <<V("d"), V("e"), V("g")>>)>>
--------------------------------------------------------------------------------
(*
   local t = 7
   emit(2 * 3 + 4 * 5 - 6 / 2, 2 ^ 3 ^ 2, -2 ^ 2, t % 3, -t % 3, t % -3, t * 1 - -t)
   emit(1 .. 2, #"abc", "a" < "b", "b" <= "a", t - (t - 1), 2 * (t + 1) ^ 2 / 4)
*)
arithmetic ==
  <<Local(<<"t">>, <<N(7)>>),
    Call("emit", <<Bin(Bin(Bin(N(2), "*", N(3)), "+", Bin(N(4), "*", N(5))), "-", Bin(N(6), "/", N(2))),
                   Bin(N(2), "^", Bin(N(3), "^", N(2))),
                   Un("-", Bin(N(2), "^", N(2))),
                   Bin(V("t"), "%", N(3)),
                   Bin(Un("-", V("t")), "%", N(3)),
                   Bin(V("t"), "%", Un("-", N(3))),
                   Bin(Bin(V("t"), "*", N(1)), "-", Un("-", V("t")))>>),
    Call("emit", <<Bin(N(1), "..", N(2)),
                   Un("#", S("abc")),
                   Bin(S("a"), "<", S("b")),
                   Bin(S("b"), "<=", S("a")),
                   Bin(V("t"), "-", Par(Bin(V("t"), "-", N(1)))),
                   Bin(Bin(N(2), "*", Bin(Par(Bin(V("t"), "+", N(1))), "^", N(2))), "/", N(4))>>)>>
--------------------------------------------------------------------------------
(*
   local t = {a = 1, b = 2, c = 3, d = 4, e = 5, f = 6, g = 7, h = 8, i = 9}
   t.j = 10
   t.k, t.l = t.j, t.a + 11
   t.m = 12 + t.k
   emit(t.k - 13, t.l == 12, t.m < 14, 15 == t.m, t.i, t.z)
   t[16], t.n = 17, t.m
   emit(t[16] * 2, t.n .. "s", 18 - 19)
*)
constants ==
  <<Local(<<"t">>, <<Tab(<<<<S("a"), N(1)>>,
                           <<S("b"), N(2)>>,
                           <<S("c"), N(3)>>,
                           <<S("d"), N(4)>>,
                           <<S("e"), N(5)>>,
                           <<S("f"), N(6)>>,
                           <<S("g"), N(7)>>,
                           <<S("h"), N(8)>>,
                           <<S("i"), N(9)>>>>)>>),
    Set(<<Dot(V("t"), "j")>>, <<N(10)>>),
    Set(<<Dot(V("t"), "k"), Dot(V("t"), "l")>>,
      <<Dot(V("t"), "j"), Bin(Dot(V("t"), "a"), "+", N(11))>>),
    Set(<<Dot(V("t"), "m")>>, <<Bin(N(12), "+", Dot(V("t"), "k"))>>),
    Call("emit", <<Bin(Dot(V("t"), "k"), "-", N(13)),
                   Bin(Dot(V("t"), "l"), "==", N(12)),
                   Bin(Dot(V("t"), "m"), "<", N(14)),
                   Bin(N(15), "==", Dot(V("t"), "m")),
                   Dot(V("t"), "i"),
                   Dot(V("t"), "z")>>),
    Set(<<At(V("t"), N(16)), Dot(V("t"), "n")>>, <<N(17), Dot(V("t"), "m")>>),
    Call("emit", <<Bin(At(V("t"), N(16)), "*", N(2)),
                   Bin(Dot(V("t"), "n"), "..", S("s")),
                   Bin(N(18), "-", N(19))>>)>>
--------------------------------------------------------------------------------
(*
   local t, s = {}, 0
   for i = 1, 5 do t[i] = i end
   for i = 8, 3, -1 do t[i] = i end
   emit(#t, t[8])
   for i = 8, 2, -1 do t[i] = nil end
   t.ab, t.cd, t[-1], t[false] = 1, 2, 3, 4
   for k, v in pairs(t) do s = s + v end
   emit(s, #t, t.cd, t[-1], t[2])
   t.ab = nil
   t.ef, t[t] = t.ab, t
   emit(t.ef, t[t] == t, t.cd)
   emit(pcall(function() t[nil] = 1 end))
*)
tables ==
  <<Local(<<"t", "s">>, <<Tab(<<>>), N(0)>>),
    For("i", <<N(1), N(5)>>, <<Set(<<At(V("t"), V("i"))>>, <<V("i")>>)>>),
    For("i", <<N(8), N(3), Un("-", N(1))>>, <<Set(<<At(V("t"), V("i"))>>, <<V("i")>>)>>),
    Call("emit", <<Un("#", V("t")), At(V("t"), N(8))>>),
    For("i", <<N(8), N(2), Un("-", N(1))>>, <<Set(<<At(V("t"), V("i"))>>, <<NIL>>)>>),
    Set(<<Dot(V("t"), "ab"), Dot(V("t"), "cd"), At(V("t"), Un("-", N(1))), At(V("t"), FF)>>,
      <<N(1), N(2), N(3), N(4)>>),
    ForIn(<<"k", "v">>, <<Call("pairs", <<V("t")>>)>>,
      <<Set(<<V("s")>>, <<Bin(V("s"), "+", V("v"))>>)>>),
    Call("emit", <<V("s"),
                   Un("#", V("t")),
                   Dot(V("t"), "cd"),
                   At(V("t"), Un("-", N(1))),
                   At(V("t"), N(2))>>),
    Set(<<Dot(V("t"), "ab")>>, <<NIL>>),
    Set(<<Dot(V("t"), "ef"), At(V("t"), V("t"))>>, <<Dot(V("t"), "ab"), V("t")>>),
    Call("emit", <<Dot(V("t"), "ef"), Bin(At(V("t"), V("t")), "==", V("t")), Dot(V("t"), "cd")>>),
    Call("emit", <<Call("pcall", <<Fun(<<>>, <<Set(<<At(V("t"), NIL)>>, <<N(1)>>)>>)>>)>>)>>
--------------------------------------------------------------------------------
(*
   local t = {3}
   tinsert(t, 4)
   tinsert(t, 1, 2)
   tinsert(t, 5, 9)
   emit(tremove(t, 2), tremove(t), #t, t[5], tremove({}))
   emit(tconcat(t, ","), tconcat({1, 2, "x"}), pcall(tconcat, {{}}))
   for i, v in ipairs({7, 8, nil, 9}) do emit(i, v) end
   emit(unpack({1, 2, 3}, 2), unpack({1, 2, 3}, 2, 3), pcall(tinsert, t))
   foreachi({5, 6}, emit)
   emit(foreachi({5, 6}, function(i, v) t[i] = nil; if v > 5 then return i end end))
   t = {x = 1, y = 2, [8] = 3}
   foreach(t, function(k, v) t[k] = v + 1 end)
   emit(t.x, t.y, t[8], foreach(t, function(k, v) if v == 3 then return k end end))
   emit(maxn(t), maxn({}), pcall(foreach, {x = 1}, error))
*)
lists ==
  <<Local(<<"t">>, <<Tab(<<<<N(3)>>>>)>>),
    Call("tinsert", <<V("t"), N(4)>>),
    Call("tinsert", <<V("t"), N(1), N(2)>>),
    Call("tinsert", <<V("t"), N(5), N(9)>>),
    Call("emit", <<Call("tremove", <<V("t"), N(2)>>),
                   Call("tremove", <<V("t")>>),
                   Un("#", V("t")),
                   At(V("t"), N(5)),
                   Call("tremove", <<Tab(<<>>)>>)>>),
    Call("emit", <<Call("tconcat", <<V("t"), S(",")>>),
                   Call("tconcat", <<Tab(<<<<N(1)>>, <<N(2)>>, <<S("x")>>>>)>>),
                   Call("pcall", <<V("tconcat"), Tab(<<<<Tab(<<>>)>>>>)>>)>>),
    ForIn(<<"i", "v">>, <<Call("ipairs", <<Tab(<<<<N(7)>>, <<N(8)>>, <<NIL>>, <<N(9)>>>>)>>)>>,
      <<Call("emit", <<V("i"), V("v")>>)>>),
    Call("emit", <<Call("unpack", <<Tab(<<<<N(1)>>, <<N(2)>>, <<N(3)>>>>), N(2)>>),
                   Call("unpack", <<Tab(<<<<N(1)>>, <<N(2)>>, <<N(3)>>>>), N(2), N(3)>>),
                   Call("pcall", <<V("tinsert"), V("t")>>)>>),
    Call("foreachi", <<Tab(<<<<N(5)>>, <<N(6)>>>>), V("emit")>>),
    Call("emit", <<Call("foreachi", <<Tab(<<<<N(5)>>, <<N(6)>>>>),
                                      Fun(<<"i", "v">>, <<Set(<<At(V("t"), V("i"))>>, <<NIL>>),
                                                          If(<<<<Bin(V("v"), ">", N(5)),
                                                                 <<ReturnS(<<V("i")>>)>>>>>>, <<>>)>>)>>)>>),
    Set(<<V("t")>>, <<Tab(<<<<S("x"), N(1)>>, <<S("y"), N(2)>>, <<N(8), N(3)>>>>)>>),
    Call("foreach", <<V("t"),
                      Fun(<<"k", "v">>, <<Set(<<At(V("t"), V("k"))>>, <<Bin(V("v"), "+", N(1))>>)>>)>>),
    Call("emit", <<Dot(V("t"), "x"),
                   Dot(V("t"), "y"),
                   At(V("t"), N(8)),
                   Call("foreach", <<V("t"),
                                     Fun(<<"k", "v">>, <<If(<<<<Bin(V("v"), "==", N(3)),
                                                                <<ReturnS(<<V("k")>>)>>>>>>, <<>>)>>)>>)>>),
    Call("emit", <<Call("maxn", <<V("t")>>),
                   Call("maxn", <<Tab(<<>>)>>),
                   Call("pcall", <<V("foreach"), Tab(<<<<S("x"), N(1)>>>>), V("error")>>)>>)>>
--------------------------------------------------------------------------------
(*
   local t = {4, 2, 8, 6, 1, 9, 3}
   sort(t)
   emit(unpack(t))
   sort(t, function(a, b) return a > b end)
   emit(unpack(t))
   local w = {"c", "a", "b", "a"}
   sort(w)
   emit(unpack(w))
   local u = {5, 4, 3, 2}
   emit(pcall(sort, u, function(a, b) error(a + b) end), pcall(sort, {1, "a"}))
*)
sorted ==
  <<Local(<<"t">>, <<Tab(<<<<N(4)>>, <<N(2)>>, <<N(8)>>, <<N(6)>>, <<N(1)>>, <<N(9)>>, <<N(3)>>>>)>>),
    Call("sort", <<V("t")>>),
    Call("emit", <<Call("unpack", <<V("t")>>)>>),
    Call("sort", <<V("t"), Fun(<<"a", "b">>, <<ReturnS(<<Bin(V("a"), ">", V("b"))>>)>>)>>),
    Call("emit", <<Call("unpack", <<V("t")>>)>>),
    Local(<<"w">>, <<Tab(<<<<S("c")>>, <<S("a")>>, <<S("b")>>, <<S("a")>>>>)>>),
    Call("sort", <<V("w")>>),
    Call("emit", <<Call("unpack", <<V("w")>>)>>),
    Local(<<"u">>, <<Tab(<<<<N(5)>>, <<N(4)>>, <<N(3)>>, <<N(2)>>>>)>>),
    Call("emit", <<Call("pcall", <<V("sort"),
                                   V("u"),
                                   Fun(<<"a", "b">>, <<Call("error", <<Bin(V("a"), "+", V("b"))>>)>>)>>),
                   Call("pcall", <<V("sort"), Tab(<<<<N(1)>>, <<S("a")>>>>)>>)>>)>>
--------------------------------------------------------------------------------
(*
   local t = {1, 2, 3, 4}
   emit(type(pcall(sort, t, coin)))
*)
anyorder ==
  <<Local(<<"t">>, <<Tab(<<<<N(1)>>, <<N(2)>>, <<N(3)>>, <<N(4)>>>>)>>),
    Call("emit", <<Call("type", <<Call("pcall", <<V("sort"), V("t"), V("coin")>>)>>)>>)>>
--------------------------------------------------------------------------------
(*
   local function same(...) return ... end
   emit(same(type(nil), type(type), type({}), type(1), type("")))
   local p = setmetatable({}, {__metatable = "no"})
   emit(getmetatable(p), getmetatable({}), pcall(setmetatable, p, {}))
   emit(select(-1, 1, 2), pcall(select, 0), pcall(type), pcall(rawset, p, nil, 1))
   emit(assert(1, 2), pcall(assert, nil), pcall(coresume, 1), pcall(rawget, 1))
   emit(pcall(cocreate, 1), pcall(cowrap), pcall(costatus), "10" + 1, pcall(getmetatable))
*)
generic ==
  <<LocalFun("same", VarFun(<<>>, <<ReturnS(<<DOTS>>)>>)),
    Call("emit", <<Call("same", <<Call("type", <<NIL>>),
                                  Call("type", <<V("type")>>),
                                  Call("type", <<Tab(<<>>)>>),
                                  Call("type", <<N(1)>>),
                                  Call("type", <<S("")>>)>>)>>),
    Local(<<"p">>, <<Call("setmetatable", <<Tab(<<>>), Tab(<<<<S("__metatable"), S("no")>>>>)>>)>>),
    Call("emit", <<Call("getmetatable", <<V("p")>>),
                   Call("getmetatable", <<Tab(<<>>)>>),
                   Call("pcall", <<V("setmetatable"), V("p"), Tab(<<>>)>>)>>),
    Call("emit", <<Call("select", <<Un("-", N(1)), N(1), N(2)>>),
                   Call("pcall", <<V("select"), N(0)>>),
                   Call("pcall", <<V("type")>>),
                   Call("pcall", <<V("rawset"), V("p"), NIL, N(1)>>)>>),
    Call("emit", <<Call("assert", <<N(1), N(2)>>),
                   Call("pcall", <<V("assert"), NIL>>),
                   Call("pcall", <<V("coresume"), N(1)>>),
                   Call("pcall", <<V("rawget"), N(1)>>)>>),
    Call("emit", <<Call("pcall", <<V("cocreate"), N(1)>>),
                   Call("pcall", <<V("cowrap")>>),
                   Call("pcall", <<V("costatus")>>),
                   Bin(S("10"), "+", N(1)),
                   Call("pcall", <<V("getmetatable")>>)>>)>>
--------------------------------------------------------------------------------
(*
   local function g(a, ...) return arg.n, arg[1], a end
   emit(g(1, nil, 9), g(7, "x"), g())
   emit(pcall(next, {}, 7), pcall(pcall))
*)
oldargs ==
  <<LocalFun("g", VarFun(<<"a">>, <<ReturnS(<<Dot(V("arg"), "n"), At(V("arg"), N(1)), V("a")>>)>>)),
    Call("emit", <<Call("g", <<N(1), NIL, N(9)>>), Call("g", <<N(7), S("x")>>), Call("g", <<>>)>>),
    Call("emit", <<Call("pcall", <<V("next"), Tab(<<>>), N(7)>>), Call("pcall", <<V("pcall")>>)>>)>>
--------------------------------------------------------------------------------
(*
   local waiting = cocreate(function() yield(1); return 2 end)
   coresume(waiting)
   local function f(n)
     local co = cocreate(f)
     local ok, a = coresume(co, n + 1)
     if ok then return a end
     emit(a, costatus(co))
     emit(coresume(waiting))
     return n
   end
   emit(f(1))
   emit(coresume(waiting))
   emit(costatus(waiting))
*)
resumes ==
  <<Local(<<"waiting">>, <<Call("cocreate", <<Fun(<<>>, <<Call("yield", <<N(1)>>), ReturnS(<<N(2)>>)>>)>>)>>),
    Call("coresume", <<V("waiting")>>),
    LocalFun("f", Fun(<<"n">>,
      <<Local(<<"co">>, <<Call("cocreate", <<V("f")>>)>>),
        Local(<<"ok", "a">>, <<Call("coresume", <<V("co"), Bin(V("n"), "+", N(1))>>)>>),
        If(<<<<V("ok"), <<ReturnS(<<V("a")>>)>>>>>>, <<>>),
        Call("emit", <<V("a"), Call("costatus", <<V("co")>>)>>),
        Call("emit", <<Call("coresume", <<V("waiting")>>)>>),
        ReturnS(<<V("n")>>)>>)),
    Call("emit", <<Call("f", <<N(1)>>)>>),
    Call("emit", <<Call("coresume", <<V("waiting")>>)>>),
    Call("emit", <<Call("costatus", <<V("waiting")>>)>>)>>
--------------------------------------------------------------------------------
(* local t = {1, 2, 0, 1, 2, ...}; emit(#t, t[65], t[64], t[1]) *)
long ==
  <<Local(<<"t">>, <<Tab([i \in 1 .. 65 |-> <<N(i % 3)>>])>>),
    Call("emit", <<Un("#", V("t")), At(V("t"), N(65)), At(V("t"), N(64)), At(V("t"), N(1))>>)>>

--------------------------------------------------------------------------------
(*
   local a, b, c, d, e, f, g, h
   local i, j, k, l = 1, 2, 3, 4
   emit(a, l)
*)
locals ==
  <<Local(<<"a", "b", "c", "d", "e", "f", "g", "h">>, <<>>),
    Local(<<"i", "j", "k", "l">>, <<N(1), N(2), N(3), N(4)>>),
    Call("emit", <<V("a"), V("l")>>)>>
--------------------------------------------------------------------------------
(*
   emit(1, 2, 3, 4, 5, 6, 7, 8, 9, 10, 11, 12, 13, 14, 15)
*)
registers ==
  <<Call("emit", <<N(1),
                   N(2),
                   N(3),
                   N(4),
                   N(5),
                   N(6),
                   N(7),
                   N(8),
                   N(9),
                   N(10),
                   N(11),
                   N(12),
                   N(13),
                   N(14),
                   N(15)>>)>>
--------------------------------------------------------------------------------
(*
   emit(((((((((((((((((((1)))))))))))))))))))
*)
nested ==
  <<Call("emit", <<Par(Par(Par(Par(Par(Par(Par(Par(Par(Par(Par(Par(Par(Par(Par(Par(Par(Par(N(1)))))))))))))))))))>>)>>
--------------------------------------------------------------------------------
Source ==
  [closures |-> closures, shared |-> shared, varargs |-> varargs, calls |-> calls,
   meta |-> meta, flags |-> flags, errors |-> errors, overflow |-> overflow,
   handling |-> handling, coroutine |-> coroutine, wrap |-> wrap, across |-> across,
   resumes |-> resumes,
   loops |-> loops, operators |-> operators, jumps |-> jumps, arithmetic |-> arithmetic,
   constants |-> constants, tables |-> tables, lists |-> lists, sorted |-> sorted,
   anyorder |-> anyorder, generic |-> generic, oldargs |-> oldargs, long |-> long,
   locals |-> locals, registers |-> registers, nested |-> nested]

--------------------------------------------------------------------------------
Language == INSTANCE LuaSemantics
Parser == INSTANCE LuaParser

MCPrograms == DOMAIN Source
MCCompiled(p) ==
  LET tokens == Language!Text(Source[p])
  IN Parser!luaY_parser(tokens)

(* Strings of one length have one hash. *)
MCHash(v) == IF IsString(v) THEN Len(v[2]) ELSE v[2]
MCStringLess(s, t) == <<s, t>> \in {<<"a", "b">>, <<"a", "c">>, <<"b", "c">>}

(* What is printed by the programs that use coroutines, all of the library *)
(* or a limit of the machine; the other ones mean what LuaSemantics says.  *)
Ok(out) == [status |-> "ok", err |-> Nil, out |-> out]
Fails(err, out) == [status |-> "error", err |-> err, out |-> out]
Boundary == Str("attempt to yield across metamethod/C-call boundary")
Printed ==
  [overflow |-> Fails(Str("stack overflow"), 
       <<<<Bool(FALSE), Str("stack overflow")>>,
         <<Bool(TRUE), Bool(TRUE), Str("end")>>,
         <<Bool(TRUE), Bool(TRUE), Bool(TRUE), Bool(TRUE), Bool(TRUE), Bool(TRUE), Bool(TRUE), Bool(TRUE), Bool(FALSE), Str("stack overflow")>>,
         <<Bool(FALSE), Str("error in error handling")>>,
         <<Bool(FALSE), Str("stack overflow")>>,
         <<Bool(FALSE), Str("stack overflow")>>,
         <<Bool(FALSE), Str("stack overflow")>>>>),
   handling |-> Ok(
       <<<<Bool(FALSE), Str("C stack overflow")>>,
         <<Bool(FALSE), Str("loop in gettable")>>,
         <<Bool(FALSE), Str("loop in settable")>>>>),
   coroutine |-> Ok(
       <<<<Bool(TRUE), Num(3), Str("running"), Bool(TRUE)>>,
         <<Bool(FALSE), Num(7)>>,
         <<Bool(TRUE), Str("suspended")>>,
         <<Str("normal")>>,
         <<Bool(TRUE), Bool(FALSE), Bool(FALSE), Str("cannot resume coroutine")>>,
         <<Bool(TRUE), Num(8), Nil>>,
         <<Str("dead"), Bool(FALSE), Nil>>>>),
   wrap |-> Ok(
       <<<<Num(44), Num(2), Num(1), Num(3)>>,
         <<Bool(FALSE), Str("5")>>,
         <<Bool(FALSE), Str("cannot resume coroutine")>>>>),
   across |-> Fails(Boundary, 
       <<<<Bool(FALSE), Boundary>>,
         <<Bool(FALSE), Boundary>>,
         <<Bool(TRUE), Num(2)>>,
         <<Bool(FALSE), Boundary>>,
         <<Str("dead"), Bool(FALSE), Str("cannot resume coroutine")>>>>),
   resumes |-> Ok(
       <<<<Str("C stack overflow"), Str("dead")>>,
         <<Bool(FALSE), Str("C stack overflow")>>,
         <<Num(12)>>,
         <<Bool(TRUE), Num(2)>>,
         <<Str("dead")>>>>),
   lists |-> Ok(
       <<<<Num(3), Num(4), Num(1), Num(9)>>,
         <<Str("2"), Str("12x"), Bool(FALSE), Str("invalid value in table for 'concat'")>>,
         <<Num(1), Num(7)>>,
         <<Num(2), Num(8)>>,
         <<Num(2), Num(2), Bool(FALSE), Str("wrong number of arguments to 'insert'")>>,
         <<Num(1), Num(5)>>,
         <<Num(2), Num(6)>>,
         <<Num(2)>>,
         <<Num(2), Num(3), Num(4), Str("y")>>,
         <<Num(8), Num(0), Bool(FALSE), Str("x")>>>>),
   generic |-> Ok(
       <<<<Str("nil"), Str("function"), Str("table"), Str("number"), Str("string")>>,
         <<Str("no"), Nil, Bool(FALSE), Str("cannot change a protected metatable")>>,
         <<Num(2), Bool(FALSE), Bool(FALSE), Bool(FALSE), Str("table index is nil")>>,
         <<Num(1), Bool(FALSE), Bool(FALSE), Bool(FALSE), Str("bad argument")>>,
         <<Bool(FALSE), Bool(FALSE), Bool(FALSE), Num(11), Bool(FALSE), Str("bad argument")>>>>),
   oldargs |-> Ok(
       <<<<Num(2), Num(1), Num(0), Nil, Nil>>,
         <<Bool(FALSE), Bool(FALSE), Str("bad argument")>>>>),
   locals |-> Fails(Str("more than limit: local variables"), <<>>),
   registers |-> Fails(Str("function or expression too complex"), <<>>),
   nested |-> Fails(Str("more than limit: syntax levels"), <<>>)]
MCMeant(p) ==
  LET meaning == Language!Meaning(Source[p])
  IN CASE p = "anyorder" -> {Ok(<<<<Str("boolean")>>>>)}
       [] p \in DOMAIN Printed -> {Printed[p]}
       [] OTHER -> {meaning}
================================================================================
