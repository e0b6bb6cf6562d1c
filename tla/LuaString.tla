-------------------------------- MODULE LuaString -------------------------------
(***************************************************************************)
(* The string library of Lua: a call of one of its functions, from its     *)
(* arguments to its results.  Those that look for a pattern try one place  *)
(* of the source in a step; gsub may ask a Lua function in between, and    *)
(* gmatch answers again each time its iterator is called.                  *)
(***************************************************************************)
EXTENDS LuaMatch

--------------------------------------------------------------------------------
(***************************************************************************)
(* What patterns mean, in place of how they are matched.  A pattern is a   *)
(* sequence of items; it has a meaning, the ways in which it matches a     *)
(* source from one place on, the preferred one first, and a text, by which *)
(* it is given to the library.  An item is one of                          *)
(*   one       a character of a set, repeated or not                       *)
(*   group     a pattern whose match is captured                           *)
(*   position  a place that is captured                                    *)
(*   back      what a capture has matched, again                           *)
(*   balance   from one character to the other that balances it            *)
(*   frontier  a place where the characters of a set begin                 *)
(***************************************************************************)
One(text, set, rep) == [k |-> "one", text |-> text, set |-> set, rep |-> rep]
Group(items) == [k |-> "group", items |-> items]
Position == [k |-> "position"]
Back(n) == [k |-> "back", text |-> <<"1", "2", "3">>[n], n |-> n]
Balance(b, e) == [k |-> "balance", b |-> b, e |-> e]
Border(text, set) == [k |-> "frontier", text |-> text, set |-> set]
(* The whole: whether it must match at the beginning, and up to the end.   *)
Pattern(items, atStart, atEnd) == [items |-> items, atStart |-> atStart, atEnd |-> atEnd]

RECURSIVE ItemsText(_)
ItemText(i) ==
  CASE i.k = "one" -> i.text \o i.rep
    [] i.k = "group" -> <<"(">> \o ItemsText(i.items) \o <<")">>
    [] i.k = "position" -> <<"(", ")">>
    [] i.k = "back" -> <<"%", i.text>>
    [] i.k = "balance" -> <<"%", "b", i.b, i.e>>
    [] i.k = "frontier" -> <<"%", "f">> \o i.text
ItemsText(items) == FlattenSeq([j \in DOMAIN items |-> ItemText(items[j])])
PatternText(p) == (IF p.atStart THEN <<"^">> ELSE <<>>) \o ItemsText(p.items)
                  \o (IF p.atEnd THEN <<"$">> ELSE <<>>)

--------------------------------------------------------------------------------
(* A way so far: the place it has come to, and the captures, each a place  *)
(* and the place after it, or -1 for a position, in the order they begin.  *)
Way(at, caps) == [at |-> at, caps |-> caps]
CharAt(src, i) == IF i \in DOMAIN src THEN src[i] ELSE "NUL"
Piece(src, cap) == SubSeq(src, cap[1], cap[2] - 1)
(* The items can be repeated so often, first the preferred number. *)
Run(src, at, set) ==
  Max({n \in 0 .. Len(src) + 1 - at : \A i \in at .. at + n - 1 : src[i] \in set})
From(low, high) == [i \in 1 .. high + 1 - low |-> low + i - 1]
Counts(rep, run) ==
  CASE rep = <<>> -> From(1, Min({1, run}))
    [] rep = <<"?">> -> Reverse(From(0, Min({1, run})))
    [] rep = <<"*">> -> Reverse(From(0, run))
    [] rep = <<"+">> -> Reverse(From(1, run))
    [] rep = <<"-">> -> From(0, run)
(* How many more of b than of e are in a piece. *)
Depth(text, b, e) == Cardinality({i \in DOMAIN text : text[i] = b}) - Cardinality({i \in DOMAIN text : text[i] = e})
BalancedEnds(src, at, b, e) ==
  {j \in at + 1 .. Len(src) + 1 :
     IF b = e THEN src[j - 1] = e /\ j > at + 1 ELSE Depth(Piece(src, <<at, j>>), b, e) = 0}
If(cond, ways) == IF cond THEN ways ELSE <<>>

RECURSIVE Ways(_, _, _)
ItemWays(i, w, src) ==
  CASE i.k = "one" -> LET n == Counts(i.rep, Run(src, w.at, i.set))
                      IN [x \in DOMAIN n |-> Way(w.at + n[x], w.caps)]
    [] i.k = "group" ->
         LET inner == Ways(i.items, Way(w.at, Append(w.caps, <<w.at, 0>>)), src)
         IN [x \in DOMAIN inner |-> [inner[x] EXCEPT !.caps[Len(w.caps) + 1] = <<w.at, inner[x].at>>]]
    [] i.k = "position" -> <<Way(w.at, Append(w.caps, <<w.at, -1>>))>>
    [] i.k = "back" -> LET text == Piece(src, w.caps[i.n])
                       IN If(IsPrefix(text, SubSeq(src, w.at, Len(src))), <<Way(w.at + Len(text), w.caps)>>)
    [] i.k = "balance" -> If(CharAt(src, w.at) = i.b /\ BalancedEnds(src, w.at, i.b, i.e) # {},
                             <<Way(Min(BalancedEnds(src, w.at, i.b, i.e)), w.caps)>>)
    [] i.k = "frontier" -> If(CharAt(src, w.at - 1) \notin i.set /\ CharAt(src, w.at) \in i.set, <<w>>)
Ways(items, w, src) ==
  IF items = <<>> THEN <<w>>
  ELSE LET first == ItemWays(items[1], w, src)
       IN FlattenSeq([x \in DOMAIN first |-> Ways(Tail(items), first[x], src)])

(* The match at i, if there is one, and the first from i on. *)
MatchesAt(p, src, i) ==
  LET ends(w) == ~p.atEnd \/ w.at = Len(src) + 1
  IN SelectSeq(Ways(p.items, Way(i, <<>>), src), ends)
IsMatch(p, src, i) == MatchesAt(p, src, i) # <<>>
MatchAt(p, src, i) == MatchesAt(p, src, i)[1]
Places(p, src, init) ==
  {i \in init .. Len(src) + 1 : (p.atStart => i = init) /\ IsMatch(p, src, i)}

(* Where the matches of a source are, one after the other: each begins at  *)
(* or after the end of the last, and after its beginning.                  *)
RECURSIVE MatchPlaces(_, _, _)
MatchPlaces(p, src, init) ==
  LET places == Places([p EXCEPT !.atStart = FALSE], src, init)
      at == Min(places)
      end == MatchAt(p, src, at).at
  IN IF places = {} THEN <<>>
     ELSE <<at>> \o MatchPlaces(p, src, IF end > at THEN end ELSE at + 1)

(* What is captured by the match at i; the match itself if nothing is. *)
Captured(src, w) ==
  [x \in DOMAIN w.caps |-> IF w.caps[x][2] = -1 THEN <<"number", w.caps[x][1]>>
                           ELSE <<"text", Piece(src, w.caps[x])>>]
Whole(src, i, w) == <<"text", Piece(src, <<i, w.at>>)>>
Values(src, i, w) == IF w.caps = <<>> THEN <<Whole(src, i, w)>> ELSE Captured(src, w)

--------------------------------------------------------------------------------
CONSTANTS Answers,     \* what a Lua function that gsub calls may do
          LUAL_BUFFERSIZE, LUA_MINSTACK

(***************************************************************************)
(* luaL_Buffer, in which a C function puts a string together.  Characters  *)
(* go to an array; when it is full it becomes a string on the Lua stack.   *)
(* B.p are the characters in the array, B.stack the values the function    *)
(* has pushed, the topmost last, of which B.lvl are parts of the string,   *)
(* and B.peak the most it has ever pushed.                                 *)
(***************************************************************************)
luaL_buffinit == [p |-> <<>>, lvl |-> 0, stack |-> <<>>, peak |-> 0]
bufffree(B) == LUAL_BUFFERSIZE - Len(B.p)
LIMIT == LUA_MINSTACK \div 2

Pushed(B, v) ==
  [B EXCEPT !.stack = Append(@, v), !.peak = IF @ > Len(B.stack) THEN @ ELSE Len(B.stack) + 1]
Popped(B) == [B EXCEPT !.stack = Front(@)]
(* The one that is n below the top. *)
Below(B, n) == B.stack[Len(B.stack) - n]
lua_concat(B, n) ==
  IF n = 0 THEN Pushed(B, <<>>)
  ELSE [B EXCEPT !.stack = Append(SubSeq(@, 1, Len(@) - n), FlattenSeq(SubSeq(@, Len(@) - n + 1, Len(@))))]

emptybuffer(B) ==
  IF B.p = <<>> THEN B ELSE [Pushed(B, B.p) EXCEPT !.p = <<>>, !.lvl = @ + 1]

(* How many parts become one: those shorter than what is above them, and   *)
(* as many as there are too many.                                          *)
RECURSIVE ToGet(_, _, _)
ToGet(B, toget, toplen) ==
  IF toget < B.lvl /\ (B.lvl - toget + 1 >= LIMIT \/ toplen > Len(Below(B, toget)))
  THEN ToGet(B, toget + 1, toplen + Len(Below(B, toget))) ELSE toget
(* A mutant: only what is shorter. *)
RECURSIVE ToGetShorter(_, _, _)
ToGetShorter(B, toget, toplen) ==
  IF toget < B.lvl /\ toplen > Len(Below(B, toget))
  THEN ToGetShorter(B, toget + 1, toplen + Len(Below(B, toget))) ELSE toget
Merged(B, toget) == [lua_concat(B, toget) EXCEPT !.lvl = @ - toget + 1]
adjuststackIfShorter(B) == IF B.lvl > 1 THEN Merged(B, ToGetShorter(B, 1, Len(Below(B, 0)))) ELSE B
adjuststack(B) == IF B.lvl > 1 THEN Merged(B, ToGet(B, 1, Len(Below(B, 0)))) ELSE B

luaL_prepbuffer(B) == IF B.p = <<>> THEN B ELSE adjuststack(emptybuffer(B))
Char(B, c) == [B EXCEPT !.p = Append(@, c)]
luaL_addchar(B, c) == Char(IF bufffree(B) > 0 THEN B ELSE luaL_prepbuffer(B), c)
luaL_addlstring(B, s) == FoldLeft(luaL_addchar, B, s)

(* The value on top of the stack, which is above the parts. *)
AddedPart(B) == adjuststack([B EXCEPT !.lvl = @ + 1])
Inserted(B, v) == Pushed(emptybuffer(Popped(B)), v)
luaL_addvalue(B) ==
  IF Len(Below(B, 0)) <= bufffree(B) THEN [Popped(B) EXCEPT !.p = @ \o Below(B, 0)]
  ELSE AddedPart(Inserted(B, Below(B, 0)))

luaL_pushresult(B) ==
  LET B1 == emptybuffer(B) IN [lua_concat(B1, B1.lvl) EXCEPT !.lvl = 1]

--------------------------------------------------------------------------------
VARIABLES call,       \* the call
          pc,         \* how far it is: "begins", "searches", "asks", "done"
          s,          \* where the next match is looked for
          ms,         \* the match a Lua function is asked about
          b, n,       \* the buffer of gsub and its substitutions
          results, err, answers

vars == <<call, pc, s, ms, b, n, results, err, answers>>

Num(i) == <<"number", i>>
Text(t) == <<"text", t>>
Nil == <<"nil">>

(* A call has all the arguments any function takes; i and j are the        *)
(* numbers, 0 for one that is not there.  What pat and repl say, if it is   *)
(* known, is in meant and parts.                                           *)
Call(fn, src) == [fn |-> fn, src |-> src, pat |-> <<>>, meant |-> <<>>, i |-> 0, j |-> 0,
                  plain |-> FALSE, repl |-> <<>>, parts |-> <<>>, pairs |-> {}, kind |-> "text"]
OptInt(i, default) == IF i = 0 THEN default ELSE i
posrelat(pos, len) == IF pos < 0 THEN Max({pos + len + 1, 0}) ELSE pos

(* Where a call c begins; there is a behaviour for each. *)
Begins(c) ==
  /\ call = c /\ pc = "begins"
  /\ s = 1 /\ ms = MatchState(<<>>, <<>>)
  /\ b = luaL_buffinit /\ n = 0
  /\ results = <<>> /\ err = "" /\ answers = <<>>

Is(fns, where) == call.fn \in fns /\ pc = where
Returns(vals) == /\ pc' = "done" /\ results' = vals
                 /\ UNCHANGED <<call, s, ms, b, n, err, answers>>
Raises(msg) == /\ pc' = "done" /\ err' = msg
               /\ UNCHANGED <<call, s, ms, b, n, results, answers>>

--------------------------------------------------------------------------------
(* The functions that are done at once. *)
SubOf(t, start, end) == IF start <= end THEN SubSeq(t, start, end) ELSE <<>>
str_sub(t, i, j) == SubOf(t, Max({posrelat(i, Len(t)), 1}), Min({posrelat(OptInt(j, -1), Len(t)), Len(t)}))
Built(chars) == Last(luaL_pushresult(luaL_addlstring(luaL_buffinit, chars)).stack)
str_reverse(t) == Built(Reverse(t))
str_lower(t) == Built([x \in DOMAIN t |-> tolower(t[x])])
str_upper(t) == Built([x \in DOMAIN t |-> toupper(t[x])])
str_rep(t, times) == Built(FlattenSeq([x \in 1 .. times |-> t]))
Bytes(t, posi, pose) == [x \in 1 .. Max({pose - posi + 1, 0}) |-> Num(code(t[posi + x - 1]))]
str_byte(t, i, j) ==
  LET posi == posrelat(OptInt(i, 1), Len(t))
  IN Bytes(t, Max({posi, 1}), Min({posrelat(OptInt(j, posi), Len(t)), Len(t)}))
(* The characters that have these codes, each of which fits a byte.        *)
IsCode(i) == i \in 0 .. 255
str_char(codes) == Built([x \in DOMAIN codes |-> CHOOSE c \in ToSet(Ascii) : code(c) = codes[x]])

Plainly ==
  \/ Is({"len"}, "begins") /\ Returns(<<Num(Len(call.src))>>)
  \/ Is({"sub"}, "begins") /\ Returns(<<Text(str_sub(call.src, call.i, call.j))>>)
  \/ Is({"reverse"}, "begins") /\ Returns(<<Text(str_reverse(call.src))>>)
  \/ Is({"lower"}, "begins") /\ Returns(<<Text(str_lower(call.src))>>)
  \/ Is({"upper"}, "begins") /\ Returns(<<Text(str_upper(call.src))>>)
  \/ Is({"rep"}, "begins") /\ Returns(<<Text(str_rep(call.src, call.i))>>)
  \/ Is({"byte"}, "begins") /\ Returns(str_byte(call.src, call.i, call.j))
  \/ Is({"char"}, "begins") /\ (\A x \in DOMAIN call.repl : IsCode(call.repl[x]))
     /\ Returns(<<Text(str_char(call.repl))>>)
  \/ Is({"char"}, "begins") /\ (\E x \in DOMAIN call.repl : ~IsCode(call.repl[x])) /\ Raises("invalid value")

--------------------------------------------------------------------------------
(* What a match has captured: the whole if there are no captures; whole is *)
(* empty where it does not count.                                          *)
CaptureError(m, i, whole) ==
  CASE i > Len(m.capture) /\ (i # 1 \/ whole = <<>>) -> "invalid capture index"
    [] i \in DOMAIN m.capture /\ m.capture[i].len = CAP_UNFINISHED -> "unfinished capture"
    [] OTHER -> ""
push_onecapture(m, i, whole) ==
  IF i > Len(m.capture) THEN whole[1]
  ELSE IF m.capture[i].len = CAP_POSITION THEN Num(m.capture[i].init)
  ELSE Text(SubSeq(m.src, m.capture[i].init, m.capture[i].init + m.capture[i].len - 1))
WholeMatch(m, from) == <<Text(SubSeq(m.src, from, m.at - 1))>>
nlevels(m, whole) == IF m.capture = <<>> /\ whole # <<>> THEN 1 ELSE Len(m.capture)
CapturesError(m, whole) ==
  IF \E i \in 1 .. nlevels(m, whole) : CaptureError(m, i, whole) # "" THEN "unfinished capture" ELSE ""
push_captures(m, whole) == [i \in 1 .. nlevels(m, whole) |-> push_onecapture(m, i, whole)]

(* A match of the pattern, after its anchor in find, match and gsub. *)
anchor == call.fn # "gmatch" /\ At(call.pat, 1) = "^"
Attempt == match(MatchState(call.src, call.pat), s, IF anchor THEN 2 ELSE 1)

(* Where s2 begins in s1, from a place on.  A search for its first         *)
(* character goes on after each one that is not followed by the rest.      *)
RECURSIVE lmemfind(_, _, _)
lmemfind(s1, from, s2) ==
  LET places == {i \in from .. Len(s1) - Len(s2) + 1 : s1[i] = s2[1]}
  IN CASE s2 = <<>> -> from
       [] s2 # <<>> /\ places = {} -> NULL
       [] OTHER -> IF SubSeq(s1, Min(places) + 1, Min(places) + Len(s2) - 1) = Tail(s2) THEN Min(places)
                   ELSE lmemfind(s1, Min(places) + 1, s2)

SPECIALS == {"^", "$", "*", "+", "?", ".", "(", "[", ESC, "-"}
Start == Min({Max({posrelat(OptInt(call.i, 1), Len(call.src)) - 1, 0}), Len(call.src)}) + 1
IsPlain == call.fn = "find" /\ (call.plain \/ ToSet(call.pat) \cap SPECIALS = {})
PlaceFound(at) == IF at = NULL THEN <<Nil>> ELSE <<Num(at), Num(at + Len(call.pat) - 1)>>

FindsPlainly == Is({"find"}, "begins") /\ IsPlain
                /\ Returns(PlaceFound(lmemfind(call.src, Start, call.pat)))
FindBegins == /\ Is({"find", "match"}, "begins") /\ ~IsPlain
              /\ pc' = "searches" /\ s' = Start
              /\ UNCHANGED <<call, ms, b, n, results, err, answers>>
(* str_find_aux, at one place. *)
FindTries(m) ==
  CASE m.err # "" -> Raises(m.err)
    [] Found(m) /\ call.fn = "find" ->
         IF CapturesError(m, <<>>) # "" THEN Raises(CapturesError(m, <<>>))
         ELSE Returns(<<Num(s), Num(m.at - 1)>> \o push_captures(m, <<>>))
    [] Found(m) /\ call.fn = "match" ->
         IF CapturesError(m, WholeMatch(m, s)) # "" THEN Raises(CapturesError(m, WholeMatch(m, s)))
         ELSE Returns(push_captures(m, WholeMatch(m, s)))
    [] ~Settled(m) /\ s < End(call.src) /\ ~anchor ->
         s' = s + 1 /\ UNCHANGED <<call, pc, ms, b, n, results, err, answers>>
    [] OTHER -> Returns(<<Nil>>)
FindSearches == Is({"find", "match"}, "searches") /\ FindTries(Attempt)

--------------------------------------------------------------------------------
(* gmatch makes an iterator; each answer is one of results.  It goes on    *)
(* where the match has ended, and one further if the match is empty.       *)
gmatch == /\ Is({"gmatch"}, "begins")
          /\ pc' = "searches" /\ UNCHANGED <<call, s, ms, b, n, results, err, answers>>
NewStart(m) == IF m.at = s THEN m.at + 1 ELSE m.at
GmatchTries(m) ==
  CASE m.err # "" -> Raises(m.err)
    [] Found(m) -> IF CapturesError(m, WholeMatch(m, s)) # "" THEN Raises(CapturesError(m, WholeMatch(m, s)))
                   ELSE /\ results' = Append(results, push_captures(m, WholeMatch(m, s)))
                        /\ s' = NewStart(m)
                        /\ UNCHANGED <<call, pc, ms, b, n, err, answers>>
    [] OTHER -> s' = s + 1 /\ UNCHANGED <<call, pc, ms, b, n, results, err, answers>>
gmatch_aux ==
  /\ Is({"gmatch"}, "searches")
  /\ IF s > End(call.src) THEN Returns(results) ELSE GmatchTries(Attempt)

--------------------------------------------------------------------------------
(* gsub.  A replacement has characters and, after the escape, the digits   *)
(* of captures; at its end the escape stands for its NUL.                  *)
RECURSIVE Parts(_)
Parts(news) ==
  CASE news = <<>> -> <<>>
    [] news # <<>> /\ news[1] # ESC -> <<Text(<<news[1]>>)>> \o Parts(Tail(news))
    [] OTHER -> <<IF isdigit(At(news, 2)) THEN Num(DigitOf(news[2])) ELSE Text(<<At(news, 2)>>)>>
                \o Parts(SubSeq(news, 3, Len(news)))
PartError(m, whole, part) == IF part[1] = "number" /\ part[2] # 0 THEN CaptureError(m, part[2], whole) ELSE ""
(* lua_tolstring of a value that is a number or a text. *)
RECURSIVE Decimal(_)
Decimal(i) == IF i < 10 THEN <<Digits[i + 1]>> ELSE Append(Decimal(i \div 10), Digits[(i % 10) + 1])
AsText(v) == IF v[1] = "number" THEN Decimal(v[2]) ELSE v[2]
AddPart(m, B, whole, part) ==
  CASE part[1] = "text" -> luaL_addchar(B, part[2][1])
    [] part = Num(0) -> luaL_addlstring(B, whole[1][2])
    [] OTHER -> luaL_addvalue(Pushed(B, AsText(push_onecapture(m, part[2], whole))))
RECURSIVE add_s(_, _, _, _)
add_s(m, B, whole, parts) ==
  IF parts = <<>> THEN B ELSE add_s(m, AddPart(m, B, whole, parts[1]), whole, Tail(parts))

(* What a table or a function has answered: a false value keeps the match. *)
IsValue(v) == v[1] \in {"number", "text"}
Kept(v, whole) == IF v[1] \in {"nil", "false"} THEN whole[1] ELSE v
Looked(key) == IF \E pair \in call.pairs : pair[1] = key
               THEN (CHOOSE pair \in call.pairs : pair[1] = key)[2] ELSE Nil

(* After a match that ends at end, or none, the source is gone on with. *)
GoesOn(B, end) ==
  /\ IF end # NULL /\ end > s THEN b' = B /\ s' = end
     ELSE IF s < End(call.src) THEN b' = luaL_addchar(B, call.src[s]) /\ s' = s + 1
     ELSE b' = B /\ s' = s
  /\ pc' = IF anchor \/ (s = End(call.src) /\ ~(end # NULL /\ end > s)) THEN "ends" ELSE "searches"
Adds(m, B, v, whole, given) ==
  IF ~IsValue(Kept(v, whole)) THEN Raises("invalid replacement value")
  ELSE /\ GoesOn(luaL_addvalue(Pushed(B, AsText(Kept(v, whole)))), m.at)
       /\ n' = n + 1 /\ answers' = given /\ ms' = MatchState(<<>>, <<>>)
       /\ UNCHANGED <<call, results, err>>
AddsText(m, whole, parts) ==
  IF \E i \in DOMAIN parts : PartError(m, whole, parts[i]) # "" THEN Raises("invalid capture index")
  ELSE /\ GoesOn(add_s(m, b, whole, parts), m.at) /\ n' = n + 1
       /\ UNCHANGED <<call, ms, results, err, answers>>
(* add_value: a function is asked and the call goes on when it answers. *)
Asks(m) == /\ pc' = "asks" /\ ms' = m /\ b' = Pushed(b, <<>>)
           /\ UNCHANGED <<call, s, n, results, err, answers>>
AddsValue(m, whole) ==
  CASE call.kind = "text" -> AddsText(m, whole, Parts(call.repl))
    [] call.kind = "table" -> IF CaptureError(m, 1, whole) # "" THEN Raises(CaptureError(m, 1, whole))
                              ELSE Adds(m, b, Looked(push_onecapture(m, 1, whole)), whole, answers)
    [] call.kind = "function" -> IF CapturesError(m, whole) # "" THEN Raises(CapturesError(m, whole)) ELSE Asks(m)

max_s == OptInt(call.i, Len(call.src) + 1)
(* Numbers are taken for their text. *)
IsReplacement(kind) == kind \in {"text", "table", "function"}
gsub ==
  /\ Is({"gsub"}, "begins")
  /\ IF ~IsReplacement(call.kind) THEN Raises("string/function/table expected")
     ELSE pc' = "searches" /\ UNCHANGED <<call, s, ms, b, n, results, err, answers>>
GsubTries(m) ==
  CASE m.err # "" -> Raises(m.err)
    [] Found(m) -> AddsValue(m, WholeMatch(m, s))
    [] OTHER -> GoesOn(b, NULL) /\ UNCHANGED <<call, ms, n, results, err, answers>>
GsubSearches == Is({"gsub"}, "searches") /\ n < max_s /\ GsubTries(Attempt)
(* The function is done, or has raised an error. *)
GsubAnswered(v) ==
  /\ Is({"gsub"}, "asks")
  /\ IF v[1] = "error" THEN Raises("error in the function")
     ELSE Adds(ms, Popped(b), v, WholeMatch(ms, s), Append(answers, v))
GsubEnds ==
  /\ Is({"gsub"}, "ends") \/ (Is({"gsub"}, "searches") /\ n >= max_s)
  /\ b' = luaL_pushresult(luaL_addlstring(b, SubSeq(call.src, s, Len(call.src))))
  /\ results' = <<Text(Last(b'.stack)), Num(n)>> /\ pc' = "done"
  /\ UNCHANGED <<call, s, ms, n, err, answers>>

--------------------------------------------------------------------------------
Next ==
  \/ Plainly
  \/ FindsPlainly \/ FindBegins \/ FindSearches
  \/ gmatch \/ gmatch_aux
  \/ gsub \/ GsubSearches \/ GsubEnds
  \/ \E v \in Answers : GsubAnswered(v)

--------------------------------------------------------------------------------
(* Properties. *)
Pat == call.meant[1]
Wanted(places) == SubSeq(places, 1, Min({max_s, Len(places)}))
GsubPlaces ==
  Wanted(IF ~Pat.atStart THEN MatchPlaces(Pat, call.src, 1)
         ELSE IF IsMatch(Pat, call.src, 1) THEN <<1>> ELSE <<>>)
WayFrom(at) == MatchAt(Pat, call.src, at)
ValuesAt(at) == Values(call.src, at, WayFrom(at))
WholeAt(at) == Whole(call.src, at, WayFrom(at))
PartMeant(at, part) ==
  CASE part[1] = "text" -> part[2]
    [] part = Num(0) -> WholeAt(at)[2]
    [] OTHER -> AsText(ValuesAt(at)[part[2]])
(* What takes the place of the match at a place, the xth. *)
ReplacementMeant(at, x) ==
  CASE call.kind = "text" -> FlattenSeq([y \in DOMAIN call.parts |-> PartMeant(at, call.parts[y])])
    [] call.kind = "table" -> AsText(Kept(Looked(ValuesAt(at)[1]), <<WholeAt(at)>>))
    [] call.kind = "function" -> AsText(Kept(answers[x], <<WholeAt(at)>>))
RECURSIVE TextMeant(_, _, _)
TextMeant(places, x, from) ==
  IF x > Len(places) THEN SubSeq(call.src, from, Len(call.src))
  ELSE SubSeq(call.src, from, places[x] - 1) \o ReplacementMeant(places[x], x)
       \o TextMeant(places, x + 1, WayFrom(places[x]).at)
(* The character at place k is between the places i and j, which count     *)
(* from the end when they are negative.                                    *)
After(i, k) == IF i < 0 THEN k - (Len(call.src) + 1) >= i ELSE k >= i
Before(j, k) == IF j < 0 THEN k - (Len(call.src) + 1) <= j ELSE k <= j
SubMeant(i, j) ==
  LET places == {k \in DOMAIN call.src : After(i, k) /\ Before(j, k)}
  IN IF places = {} THEN <<>> ELSE SubSeq(call.src, Min(places), Max(places))
FoundMeant(places) ==
  CASE places = {} -> <<Nil>>
    [] places # {} /\ call.fn = "find" ->
         <<Num(Min(places)), Num(WayFrom(Min(places)).at - 1)>> \o Captured(call.src, WayFrom(Min(places)))
    [] OTHER -> ValuesAt(Min(places))
GmatchMeant ==
  LET places == MatchPlaces(Pat, call.src, 1) IN [x \in DOMAIN places |-> ValuesAt(places[x])]

(* A call answers what it means: find and match the first match, by the    *)
(* preferred way, with its captures; gmatch every match, one after the     *)
(* other; gsub the source with its matches, the same ones, replaced, also  *)
(* when an answer has been waited for, and fails only for an answer.       *)
(* Captures and positions of what was tried in vain leave no trace, and    *)
(* nothing is lost in the buffer.                                          *)
AsMeant ==
  CASE call.fn = "sub" /\ pc = "done" -> results = <<Text(SubMeant(call.i, OptInt(call.j, -1)))>>
    [] call.meant # <<>> /\ call.fn \in {"find", "match"} /\ pc = "done" ->
         err = "" /\ results = FoundMeant(Places(Pat, call.src, Start))
    [] call.meant # <<>> /\ call.fn = "gmatch" ->
         err = "" /\ IF pc = "done" THEN results = GmatchMeant ELSE IsPrefix(results, GmatchMeant)
    [] call.meant # <<>> /\ call.fn = "gsub" /\ pc = "done" ->
         IF err = "" THEN results = <<Text(TextMeant(GsubPlaces, 1, 1)), Num(Len(GsubPlaces))>>
         ELSE call.kind \notin {"text", "table"}
    [] OTHER -> TRUE

(* Whatever the pattern is, well formed or not, the matcher reads nothing  *)
(* after the NUL at its end, nor after that of the source.                 *)
StaysInside == err # "outside"

(* A C function has room for LUA_MINSTACK values without asking for more,  *)
(* which the buffer never does, however long the string.                   *)
StackSuffices == b.peak <= LUA_MINSTACK
================================================================================
