-------------------------------- MODULE MCLuaText -------------------------------
(* Calls of the string library over sources of the letters a and b: with   *)
(* patterns of up to two items, captured in all the ways that differ; with *)
(* every text of up to three marks as a pattern, most of them malformed;   *)
(* and with all the kinds of replacements.  And texts for the lexer: all   *)
(* the short ones of the characters that one of its functions tells apart. *)
EXTENDS LuaString

VARIABLES ls, meant, taken, looked
lexVars == <<ls, meant, taken, looked>>
Lexer == INSTANCE LuaLex

a == <<"a">>
Letters == {"a", "b"}
Sources(most) == UNION {[1 .. m -> Letters] : m \in 0 .. most}

Ones == {One(a, {"a"}, rep) : rep \in {<<>>, <<"?">>, <<"*">>, <<"+">>, <<"-">>}}
        \cup {One(<<".">>, Letters, rep) : rep \in {<<>>, <<"*">>, <<"-">>}}
        \cup {One(<<"[", "^", "a", "]">>, {"b"}, rep) : rep \in {<<>>, <<"?">>, <<"+">>}}
        \cup {One(<<"%", "A">>, {}, <<"*">>), One(<<"[", "%", "]", "b", "-", "c", "]">>, {"b"}, <<>>)}
Items == Ones \cup {Position, Balance("a", "b"), Border(<<"[", "b", "]">>, {"b"})}

Captures(x, y) ==
  {<<x, y>>, <<Group(<<x>>), y>>, <<x, Group(<<y>>)>>, <<Group(<<x, y>>)>>}
Shapes(x, y) ==
  Captures(x, y) \cup {<<Group(<<x>>), Group(<<y>>)>>, <<Group(<<Group(<<x>>), y>>)>>,
                       <<Group(<<x>>), Back(1), y>>, <<Group(<<x>>), y, Back(1)>>}
ItemSeqs == UNION {Shapes(x, y) : x, y \in Ones} \cup UNION {{<<x, y>>, <<Group(<<x>>), y>>} : x, y \in Items}
Few == {<<Group(<<x>>)>> : x \in Items} \cup {<<x>> : x \in Items}
       \cup UNION {Captures(x, y) : x \in Ones, y \in {Position, One(a, {"a"}, <<"-">>)}}

With(c, p) == [c EXCEPT !.pat = PatternText(p), !.meant = <<p>>]
Patterns(seqs, starts, ends) == {Pattern(items, x, y) : items \in seqs, x \in starts, y \in ends}

InitFind ==
  \/ \E p \in Patterns(ItemSeqs, {FALSE}, {FALSE}), src \in Sources(3) : Begins(With(Call("find", src), p))
  \/ \E p \in Patterns(Few, BOOLEAN, BOOLEAN), src \in Sources(3), i \in {0, 2, -1} :
       Begins(With([Call("match", src) EXCEPT !.i = i], p))
PlainItems(t) == [x \in DOMAIN t |-> One(<<t[x]>>, {t[x]}, <<>>)]
PlainPattern(t) == Pattern(PlainItems(t), FALSE, FALSE)
InitPlain ==
  \/ \E src \in Sources(4), t \in Sources(3), yes \in BOOLEAN, i \in {0, -2} :
       Begins([With(Call("find", src), PlainPattern(t)) EXCEPT !.plain = yes, !.i = i])
  \/ \E src \in UNION {[1 .. m -> {"a", "%"}] : m \in 0 .. 3} :
       Begins([With(Call("find", src), PlainPattern(<<"%", "a">>)) EXCEPT !.plain = TRUE])
InitGmatch ==
  \E src \in Sources(3), p \in Patterns(Few, {FALSE}, BOOLEAN) : Begins(With(Call("gmatch", src), p))

Part(c) == <<"text", <<c>>>>
Replacements == {<<>>, <<Part("x")>>, <<<<"number", 1>>, Part("%"), <<"number", 0>>>>}
PartText(part) == IF part[1] = "number" THEN <<"%", <<"0", "1">>[part[2] + 1]>>
                  ELSE IF part[2] = <<"%">> THEN <<"%", "%">> ELSE part[2]
ReplText(parts) == FlattenSeq([x \in DOMAIN parts |-> PartText(parts[x])])
Replacing(c, p, parts) == [With(c, p) EXCEPT !.parts = parts, !.repl = ReplText(parts)]
GsubPatterns ==
  {<<x>> : x \in Items} \cup {<<Group(<<x>>)>> : x \in Items}
  \cup {<<One(a, {"a"}, <<"?">>), Position>>}
Long == [x \in 1 .. 9 |-> "a"]
Table == {<<Text(a), Text(<<"x", "y">>)>>, <<Text(<<"b">>), <<"false">>>>, <<Num(2), Num(12)>>}
InitGsub ==
  \/ \E p \in Patterns(GsubPatterns, BOOLEAN, {FALSE}), src \in Sources(3), parts \in Replacements, max \in {0, 1, -1} :
       Begins([Replacing(Call("gsub", src), p, parts) EXCEPT !.i = max])
  \/ \E p \in Patterns(GsubPatterns, {FALSE}, {FALSE}), src \in Sources(3), kind \in {"table", "function", "boolean"} :
       Begins([With(Call("gsub", src), p) EXCEPT !.kind = kind, !.pairs = Table])
  \/ \E p \in Patterns({<<x>> : x \in Ones}, {FALSE}, {FALSE}), parts \in Replacements :
       Begins(Replacing(Call("gsub", Long), p, parts))
MCAnswers == {Nil, Text(<<"x", "y", "z">>), Num(10), <<"table">>, <<"error">>}

MarksOf(most) == UNION {[1 .. m -> {"a", "%", "[", "]", "^", "(", ")", "-", "*", "1", "b", "f", "$"}] : m \in 0 .. most}
InitRaw ==
  \/ \E src \in {<<>>, a, <<"a", "a", "b">>}, pat \in MarksOf(3) \cup {<<"(", "(", "(", "(">>} :
       Begins([Call("match", src) EXCEPT !.pat = pat])
  \/ \E fn \in {"find", "gmatch", "gsub"}, pat \in MarksOf(2), repl \in {<<"%", "1">>, <<"%", "2">>, <<"%">>},
        kind \in {"text", "table", "function"} :
       Begins([Call(fn, <<"a", "b">>) EXCEPT !.pat = pat, !.repl = repl, !.kind = kind])

Numbers == {-4, -3, -1, 1, 2, 3, 5}
InitSimple ==
  \/ \E src \in {<<>>, a, <<"a", "b", "b">>}, i \in Numbers, j \in Numbers \cup {0} :
       Begins([Call("sub", src) EXCEPT !.i = i, !.j = j])
  \/ \E i, j \in Numbers \cup {0} : Begins([Call("byte", <<"a", "B", "c">>) EXCEPT !.i = i, !.j = j])
  \/ \E fn \in {"reverse", "lower", "upper", "rep", "len"}, i \in {0, 3} :
       Begins([Call(fn, <<"a", "B", "1", "c">>) EXCEPT !.i = i])
  \/ \E codes \in {<<97, 66, 49>>, <<97, -1>>, <<256, 66>>} : Begins([Call("char", <<>>) EXCEPT !.repl = codes])

Texts(chars, most) == UNION {[1 .. m -> chars] : m \in 0 .. most}
Behind(prefix, texts) == {prefix \o t : t \in texts}
LexTexts ==
  Texts({"[", "]", "=", "\n", "x"}, 5) \cup Behind(<<"-", "-">>, Texts({"[", "]", "=", "\n", "x"}, 5))
  \cup Behind(<<"\"">>, Texts({"\\", "\"", "9", "n", "\n", "\r"}, 5))
  \cup Texts({"0", "x", ".", "e", "-", "_"}, 5) \cup Texts({".", "=", "~", "<", "a", " "}, 4)
  \cup Texts({"i", "n", "\n", "\r", "#"}, 5)

(* A behaviour is a call or a text. *)
NoCall == Call("none", <<>>)
MCInit ==
  \/ Lexer!Begins(<<>>, 1) /\ (InitFind \/ InitPlain \/ InitGmatch \/ InitGsub \/ InitRaw \/ InitSimple)
  \/ Begins(NoCall) /\ \E t \in LexTexts, size \in {1, 3} : Lexer!Begins(t, size)
MCNext ==
  \/ Next /\ UNCHANGED lexVars
  \/ call = NoCall /\ Lexer!Next /\ UNCHANGED vars
MCSpec == MCInit /\ [][MCNext]_<<vars, lexVars>>

ReadAsWritten == Lexer!ReadAsWritten
================================================================================
