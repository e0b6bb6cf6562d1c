--------------------------------- MODULE LuaLex ---------------------------------
(***************************************************************************)
(* The lexer of Lua (llex.c) on its input (lzio.c), which a reader gives   *)
(* it in blocks: the file of luaL_loadfile, without a first line that      *)
(* begins with #.  The parser takes one token after another, and may look  *)
(* at the one after a name before it takes it.                             *)
(*                                                                         *)
(* A text is a sequence of characters.  Numbers stay as they are written.  *)
(***************************************************************************)
EXTENDS Integers, Sequences, FiniteSetsExt, SequencesExt, TLC

EOZ == "EOZ"
NUL == "NUL"
TK_EOS == [t |-> "<eof>", v |-> <<>>]
Token(t) == [t |-> t, v |-> <<>>]

Reserved ==
  {"and", "break", "do", "else", "elseif", "end", "false", "for", "function", "if", "in", "local",
   "nil", "not", "or", "repeat", "return", "then", "true", "until", "while"}
isdigit(c) == c \in {"0", "1", "2", "3", "4", "5", "6", "7", "8", "9"}
Value(c) == CHOOSE n \in 0 .. 9 : ToString(n) = c
isalpha(c) ==
  c \in {"a", "b", "c", "d", "e", "f", "g", "h", "i", "j", "k", "l", "m", "n", "o", "p", "q", "r", "s",
         "t", "u", "v", "w", "x", "y", "z", "A", "B", "C", "D", "E", "F", "X"}
isalnum(c) == isalpha(c) \/ isdigit(c)
isxdigit(c) == isdigit(c) \/ c \in {"a", "b", "c", "d", "e", "f", "A", "B", "C", "D", "E", "F"}
IsNewline(c) == c \in {"\n", "\r"}
isspace(c) == c \in {" ", "\t"} \/ IsNewline(c)

--------------------------------------------------------------------------------
(* The input: ls.file is what the reader has not read, ls.p the rest of    *)
(* its last block, and ls.n the length of that, which wraps when it is     *)
(* counted down from 0.                                                    *)
Joined(cs) == FoldLeft(LAMBDA word, c : word \o c, "", cs)
FirstLine(t) == Min({k \in DOMAIN t : t[k] = "\n"} \cup {Len(t) + 1})
(* luaL_loadfile, to the call of lua_load. *)
luaL_loadfile(t) ==
  IF t # <<>> /\ t[1] = "#" THEN [extraline |-> TRUE, rest |-> SubSeq(t, FirstLine(t) + 1, Len(t))]
  ELSE [extraline |-> FALSE, rest |-> t]
(* A block, and what is left. *)
getF(file, size) ==
  IF file.extraline THEN [buff |-> <<"\n">>, file |-> [file EXCEPT !.extraline = FALSE]]
  ELSE LET n == Min({size, Len(file.rest)})
       IN [buff |-> SubSeq(file.rest, 1, n), file |-> [file EXCEPT !.rest = SubSeq(@, n + 1, Len(@))]]

Filled(S, read) ==
  IF read.buff = <<>> THEN [S EXCEPT !.file = read.file, !.current = EOZ]
  ELSE [S EXCEPT !.file = read.file, !.current = read.buff[1],
                 !.p = Tail(read.buff), !.n = Len(read.buff) - 1]
luaZ_fill(S) == Filled(S, getF(S.file, S.size))
PutBack(S) == IF S.current = EOZ THEN S ELSE [S EXCEPT !.n = @ + 1, !.p = <<S.current>> \o @]
luaZ_lookahead(S) == IF S.n = 0 THEN PutBack(luaZ_fill(S)) ELSE S
(* zgetc.  It must not be asked again after the end: the count has wrapped *)
(* and it would read on behind the block.                                  *)
next(S) ==
  CASE S.n > 0 -> [S EXCEPT !.current = S.p[1], !.p = Tail(@), !.n = @ - 1]
    [] S.n = 0 -> luaZ_fill([S EXCEPT !.n = -1])
    [] S.n < 0 -> [S EXCEPT !.current = EOZ, !.err = "outside"]

save(S, c) == [S EXCEPT !.buff = Append(@, c)]
save_and_next(S) == next(save(S, S.current))
luaZ_resetbuffer(S) == [S EXCEPT !.buff = <<>>]
luaX_lexerror(S, msg) == [S EXCEPT !.err = IF @ = "" THEN msg ELSE @]
currIsNewline(S) == IsNewline(S.current)
(* A newline of two characters is one line. *)
AfterPair(S, first) == IF currIsNewline(S) /\ S.current # first THEN next(S) ELSE S
(* A mutant: it is two lines. *)
inclinenumberEach(S) == [next(S) EXCEPT !.linenumber = @ + 1]
inclinenumber(S) == [AfterPair(next(S), S.current) EXCEPT !.linenumber = @ + 1]
(* check_next: strchr finds the NUL at the end of the set, too. *)
NextIn(S, set) == S.current \in set \cup {NUL}

--------------------------------------------------------------------------------
(* What C's strtod, and strtoul for hexadecimals, read to the end. *)
IsDigits(s) == s # <<>> /\ \A k \in DOMAIN s : isdigit(s[k])
IsMantissa(s) == IsDigits(s) \/ \E k \in DOMAIN s : s[k] = "." /\ IsDigits(SubSeq(s, 1, k - 1) \o SubSeq(s, k + 1, Len(s)))
IsExponent(s) == IsDigits(IF s # <<>> /\ s[1] \in {"+", "-"} THEN Tail(s) ELSE s)
luaO_str2d(s) ==
  \/ IsMantissa(s)
  \/ \E k \in DOMAIN s : s[k] \in {"e", "E"} /\ IsMantissa(SubSeq(s, 1, k - 1)) /\ IsExponent(SubSeq(s, k + 1, Len(s)))
  \/ Len(s) > 2 /\ s[1] = "0" /\ s[2] \in {"x", "X"} /\ \A k \in 3 .. Len(s) : isxdigit(s[k])

RECURSIVE SaveDigits(_), SaveAlnums(_)
SaveDigits(S) == IF isdigit(S.current) \/ S.current = "." THEN SaveDigits(save_and_next(S)) ELSE S
SaveAlnums(S) == IF isalnum(S.current) \/ S.current = "_" THEN SaveAlnums(save_and_next(S)) ELSE S
Sign(S) == IF NextIn(S, {"+", "-"}) THEN save_and_next(S) ELSE S
Exponent(S) == IF NextIn(S, {"E", "e"}) THEN Sign(save_and_next(S)) ELSE S
Read(S, t, v) == [S EXCEPT !.r = [t |-> t, v |-> v]]
Numeral(S) == IF luaO_str2d(S.buff) THEN Read(S, "<number>", S.buff) ELSE luaX_lexerror(S, "malformed number")
read_numeral(S) == Numeral(SaveAlnums(Exponent(SaveDigits(save_and_next(S)))))

(* The level of a long bracket, in sep; if it is none, less than 0. *)
RECURSIVE Equals(_, _, _)
Equals(S, s, count) ==
  IF S.current = "=" THEN Equals(save_and_next(S), s, count + 1)
  ELSE [S EXCEPT !.sep = IF S.current = s THEN count ELSE -count - 1]
skip_sep(S) == Equals(save_and_next(S), S.current, 0)

(* To the bracket of level sep that closes; in a string, not in a comment, *)
(* characters are saved.                                                   *)
RECURSIVE ToClosing(_, _, _)
Opened(S, saves, sep) ==
  CASE S.sep # sep -> ToClosing(S, saves, sep)
    [] S.sep = sep /\ sep = 0 -> luaX_lexerror(S, "nesting of [[...]] is deprecated")
    [] OTHER -> ToClosing(save_and_next(S), saves, sep)
Closed(S, saves, sep) == IF S.sep = sep THEN save_and_next(S) ELSE ToClosing(S, saves, sep)
ToClosing(S, saves, sep) ==
  CASE S.current = EOZ -> luaX_lexerror(S, "unfinished long string")
    [] S.current = "[" -> Opened(skip_sep(S), saves, sep)
    [] S.current = "]" -> Closed(skip_sep(S), saves, sep)
    [] currIsNewline(S) -> ToClosing(inclinenumber(IF saves THEN save(S, "\n") ELSE luaZ_resetbuffer(S)), saves, sep)
    [] OTHER -> ToClosing(IF saves THEN save_and_next(S) ELSE next(S), saves, sep)
WithoutFirst(S) == IF currIsNewline(S) THEN inclinenumber(S) ELSE S
LongString(S, sep) == Read(S, "<string>", SubSeq(S.buff, 3 + sep, Len(S.buff) - (2 + sep)))
read_long_string(S, saves, sep) ==
  LongString(ToClosing(WithoutFirst(save_and_next(S)), saves, sep), sep)

Code(n) == "\\" \o ToString(n)
Escaped == [a |-> Code(7), b |-> Code(8), f |-> Code(12), n |-> "\n", r |-> "\r", t |-> "\t", v |-> Code(11)]
(* Up to three digits after the escape, of which i have been read. *)
RECURSIVE Decimal(_, _, _)
Decimal(S, i, c) ==
  IF i < 3 /\ isdigit(S.current) THEN Decimal(next(S), i + 1, 10 * c + Value(S.current))
  ELSE IF c > 255 THEN luaX_lexerror(S, "escape sequence too large") ELSE save(S, Code(c))
AfterEscape(S) ==
  CASE S.current \in DOMAIN Escaped -> next(save(S, Escaped[S.current]))
    [] currIsNewline(S) -> inclinenumber(save(S, "\n"))
    [] S.current = EOZ -> S
    [] isdigit(S.current) -> Decimal(S, 0, 0)
    [] OTHER -> save_and_next(S)
RECURSIVE ToDelimiter(_, _)
ToDelimiter(S, del) ==
  CASE S.err # "" \/ S.current = del -> S
    [] S.current = EOZ \/ currIsNewline(S) -> luaX_lexerror(S, "unfinished string")
    [] S.current = "\\" -> ToDelimiter(AfterEscape(next(S)), del)
    [] OTHER -> ToDelimiter(save_and_next(S), del)
String(S) == Read(S, "<string>", SubSeq(S.buff, 2, Len(S.buff) - 1))
Ended(S) == IF S.err # "" THEN S ELSE String(save_and_next(S))
read_string(S, del) == Ended(ToDelimiter(save_and_next(S), del))

(* One character, or that and one of its kind after it. *)
Two(S, c) == IF S.current = "=" THEN Read(next(S), c \o "=", <<>>) ELSE Read(S, c, <<>>)
ThirdDot(S) == IF NextIn(S, {"."}) THEN Read(save_and_next(S), "...", <<>>) ELSE Read(S, "..", <<>>)
AfterDot(S) ==
  CASE NextIn(S, {"."}) -> ThirdDot(save_and_next(S))
    [] isdigit(S.current) -> read_numeral(S)
    [] OTHER -> Read(S, ".", <<>>)
AfterBracket(S) ==
  CASE S.sep >= 0 -> read_long_string(S, TRUE, S.sep)
    [] S.sep = -1 -> Read(S, "[", <<>>)
    [] OTHER -> luaX_lexerror(S, "invalid long string delimiter")
RECURSIVE ToLineEnd(_)
ToLineEnd(S) == IF currIsNewline(S) \/ S.current = EOZ THEN S ELSE ToLineEnd(next(S))
LongComment(S) == IF S.sep < 0 THEN ToLineEnd(S) ELSE luaZ_resetbuffer(read_long_string(S, FALSE, S.sep))
(* After the two dashes. *)
Comment(S) == IF S.current = "[" THEN LongComment(luaZ_resetbuffer(skip_sep(S))) ELSE ToLineEnd(S)
Named(S, word) == IF word \in Reserved THEN Read(S, word, <<>>) ELSE Read(S, "<name>", S.buff)
Word(S) == Named(S, Joined(S.buff))

RECURSIVE Lex(_)
AfterDash(S) == IF S.current = "-" THEN Lex(Comment(next(S))) ELSE Read(S, "-", <<>>)
Lex(S) ==
  IF S.err # "" THEN S ELSE
  CASE currIsNewline(S) -> Lex(inclinenumber(S))
    [] S.current = "-" -> AfterDash(next(S))
    [] S.current = "[" -> AfterBracket(skip_sep(S))
    [] S.current \in {"=", "<", ">", "~"} -> Two(next(S), S.current)
    [] S.current \in {"\"", "'"} -> read_string(S, S.current)
    [] S.current = "." -> AfterDot(save_and_next(S))
    [] S.current = EOZ -> [S EXCEPT !.r = TK_EOS]
    [] S.current \in {" ", "\t"} -> Lex(next(S))
    [] isdigit(S.current) -> read_numeral(S)
    [] isalpha(S.current) \/ S.current = "_" -> Word(SaveAlnums(S))
    [] OTHER -> Read(next(S), S.current, <<>>)
llex(S) == Lex(luaZ_resetbuffer(S))

Current(S) == IF S.err # "" THEN S ELSE [S EXCEPT !.t = S.r]
Ahead(S) == IF S.err # "" THEN S ELSE [S EXCEPT !.lookahead = S.r]
luaX_next(S) ==
  IF S.lookahead # TK_EOS THEN [S EXCEPT !.lastline = S.linenumber, !.t = S.lookahead, !.lookahead = TK_EOS]
  ELSE Current(llex([S EXCEPT !.lastline = S.linenumber]))
luaX_lookahead(S) == Ahead(llex(S))

(* luaX_setinput, after the parser has looked whether the file is binary. *)
LexState(t, size) ==
  [file |-> luaL_loadfile(t), size |-> size, p |-> <<>>, n |-> 0, current |-> NUL, buff |-> <<>>,
   linenumber |-> 1, lastline |-> 1, t |-> Token("none"), lookahead |-> TK_EOS,
   r |-> TK_EOS, sep |-> 0, err |-> ""]
luaX_setinput(t, size) == next(luaZ_lookahead(LexState(t, size)))

--------------------------------------------------------------------------------
(* What a text means, character by character: B[k] is its kth one, and an  *)
(* item, a token or what lies between tokens, goes from one to another.    *)
Body(t) == IF t # <<>> /\ t[1] = "#" THEN <<"\n">> \o SubSeq(t, FirstLine(t) + 1, Len(t)) ELSE t
At(B, k) == IF k \in DOMAIN B THEN B[k] ELSE EOZ
(* The second characters of newlines of two. *)
Seconds(B) ==
  LET second[k \in 0 .. Len(B)] ==
        k > 1 /\ IsNewline(B[k]) /\ IsNewline(B[k - 1]) /\ B[k] # B[k - 1] /\ ~second[k - 1]
  IN {k \in DOMAIN B : second[k]}
LineOf(B, k) == 1 + Cardinality({i \in 1 .. k : IsNewline(B[i])} \ Seconds(B))
(* A bracket of a level, with its marks. *)
HasBracket(B, k, c, n) == At(B, k) = c /\ At(B, k + n + 1) = c /\ \A i \in k + 1 .. k + n : B[i] = "="
Openings(B, k) == {n \in 0 .. Len(B) : HasBracket(B, k, "[", n)}
Closings(B, k, n) == {i \in k + n + 2 .. Len(B) : HasBracket(B, i, "]", n)}
Nests(B, i, j) == \E k \in i .. j - 1 : B[k] = "[" /\ B[k + 1] = "["
AsSaved(c) == IF IsNewline(c) THEN "\n" ELSE c
(* The characters at some places, each with what it becomes. *)
Contents(places, become) == [x \in 1 .. Cardinality(places) |-> become[SetToSortSeq(places, <)[x]]]

Item(t, v, end) == [t |-> t, v |-> v, end |-> end]
Wrong == Item("wrong", <<>>, 0)
Newline(B, i) == {m \in {i, i + 1} : IsNewline(At(B, i)) /\ (m = i \/ m \in Seconds(B))}
LongAt(B, k, n) ==
  LET first == k + n + 2
      end == Min(Closings(B, k, n))
      inside == (first .. end - 1) \ (Seconds(B) \cup Newline(B, first))
  IN IF Closings(B, k, n) = {} \/ (n = 0 /\ Nests(B, first, end)) THEN Wrong
     ELSE Item("<string>", Contents(inside, [i \in inside |-> AsSaved(B[i])]), end + n + 1)
LineEnd(B, k) == Min({i \in k .. Len(B) : IsNewline(B[i])} \cup {Len(B) + 1}) - 1
Between(item) == IF item = Wrong THEN Wrong ELSE Item("between", <<>>, item.end)
CommentAt(B, k) ==
  IF Openings(B, k + 2) = {} THEN Item("between", <<>>, LineEnd(B, k))
  ELSE Between(LongAt(B, k + 2, Max(Openings(B, k + 2))))

(* In a string that begins at k: the characters with an escape before them. *)
Escapes(B, k) ==
  LET escaped[i \in k .. Len(B)] == i > k + 1 /\ B[i - 1] = "\\" /\ ~escaped[i - 1]
  IN {i \in k .. Len(B) : escaped[i]}
(* The digits after an escape, at i, that are a number with it. *)
DigitsAt(B, i) == {j \in i .. i + 2 : \A m \in i .. j : isdigit(At(B, m))}
NumberIn(s) == FoldLeft(LAMBDA n, d : 10 * n + Value(d), 0, s)
CodeAt(B, i) == NumberIn(SubSeq(B, i, Max(DigitsAt(B, i))))
QuotedAt(B, k) ==
  LET escaped == Escapes(B, k)
      ends == {i \in k + 1 .. Len(B) : B[i] = B[k]} \ escaped
      inside == k + 1 .. Min(ends) - 1
      coded == {i \in escaped \cap inside : isdigit(B[i])}
      breaks == {i \in inside : IsNewline(B[i])} \ (escaped \cup Seconds(B))
      saved == ((inside \ Seconds(B)) \ UNION {DigitsAt(B, i) \ {i} : i \in coded})
               \ {i \in inside \ escaped : B[i] = "\\"}
      become == [i \in saved |-> IF i \in coded THEN Code(CodeAt(B, i))
                                 ELSE IF i \in escaped /\ B[i] \in DOMAIN Escaped THEN Escaped[B[i]]
                                 ELSE AsSaved(B[i])]
  IN IF ends = {} \/ breaks # {} \/ \E i \in coded : CodeAt(B, i) > 255 THEN Wrong
     ELSE Item("<string>", Contents(saved, become), Min(ends))

WordEnd(B, k) == Max({i \in k - 1 .. Len(B) : \A m \in k .. i : isalnum(B[m]) \/ B[m] = "_"})
(* A number goes on with all that could belong to one. *)
MantissaEnd(B, k) == Max({i \in k .. Len(B) : \A m \in k .. i : isdigit(B[m]) \/ B[m] = "."})
HasSign(B, k) == At(B, k) \in {"e", "E"} /\ At(B, k + 1) \in {"+", "-"}
NumberEnd(B, k) ==
  LET i == MantissaEnd(B, k) + 1 IN WordEnd(B, IF HasSign(B, i) THEN i + 2 ELSE i)
NumberAt(B, k) ==
  LET n == SubSeq(B, k, NumberEnd(B, k)) IN IF luaO_str2d(n) THEN Item("<number>", n, NumberEnd(B, k)) ELSE Wrong
WordAt(B, k) ==
  LET w == SubSeq(B, k, WordEnd(B, k))
  IN IF Joined(w) \in Reserved THEN Item(Joined(w), <<>>, WordEnd(B, k)) ELSE Item("<name>", w, WordEnd(B, k))
Symbols == {"==", "<=", ">=", "~=", "..", "..."}
SymbolAt(B, k) ==
  LET end == Max({i \in k .. k + 2 : i \in DOMAIN B /\ (i = k \/ Joined(SubSeq(B, k, i)) \in Symbols)})
  IN Item(Joined(SubSeq(B, k, end)), <<>>, end)

ItemAt(B, k) ==
  CASE isspace(B[k]) -> Item("between", <<>>, k)
    [] B[k] = "-" /\ At(B, k + 1) = "-" -> CommentAt(B, k)
    [] Openings(B, k) # {} -> LongAt(B, k, Max(Openings(B, k)))
    [] B[k] = "[" /\ At(B, k + 1) = "=" /\ Openings(B, k) = {} -> Wrong
    [] B[k] \in {"\"", "'"} -> QuotedAt(B, k)
    [] isdigit(B[k]) \/ (B[k] = "." /\ isdigit(At(B, k + 1))) -> NumberAt(B, k)
    [] isalpha(B[k]) \/ B[k] = "_" -> WordAt(B, k)
    [] OTHER -> SymbolAt(B, k)

(* The tokens from k on, with their lines; the last one is the end, if     *)
(* nothing is wrong before it.                                             *)
RECURSIVE TokensFrom(_, _)
TokensFrom(B, k) ==
  IF k > Len(B) THEN <<[t |-> "<eof>", v |-> <<>>, line |-> LineOf(B, Len(B))]>>
  ELSE LET i == ItemAt(B, k)
       IN CASE i.t = "wrong" -> <<>>
            [] i.t = "between" -> TokensFrom(B, i.end + 1)
            [] OTHER -> <<[t |-> i.t, v |-> i.v, line |-> LineOf(B, i.end)]>> \o TokensFrom(B, i.end + 1)
Meaning(t) == TokensFrom(Body(t), 1)

--------------------------------------------------------------------------------
VARIABLES ls,        \* LexState, with its ZIO, and the last error in err
          meant,     \* history: the tokens that the text means
          taken,     \* history: the tokens that the parser has taken
          looked     \* history: the tokens behind which it has looked

vars == <<ls, meant, taken, looked>>

Begins(t, size) == /\ meant = Meaning(t) /\ ls = luaX_setinput(t, size)
                   /\ taken = <<>> /\ looked = {}

Takes ==
  /\ ls.err = "" /\ ls.t # TK_EOS
  /\ ls' = luaX_next(ls)
  /\ taken' = IF ls'.err = "" THEN Append(taken, ls'.t) ELSE taken
  /\ UNCHANGED <<meant, looked>>
(* The parser looks behind a name, in a table, before it takes it. *)
LooksAhead ==
  /\ ls.err = "" /\ ls.t.t = "<name>" /\ Len(taken) \notin looked
  /\ ls' = luaX_lookahead(ls)
  /\ looked' = looked \cup {Len(taken)}
  /\ UNCHANGED <<meant, taken>>

Next == Takes \/ LooksAhead

--------------------------------------------------------------------------------
(* The parser gets the tokens that the text means, each once, however the  *)
(* reader cuts the text and wherever the parser looks ahead; it is told    *)
(* that the text is wrong where it is, and nothing is read after the end.  *)
(* The lines are those of tokens: the one read last, and the one before    *)
(* the current one, or the current one itself when it was looked behind.   *)
ReadAsWritten ==
  LET n == Len(taken)
      Furthest(k) == IF k \in looked THEN k + 1 ELSE k
  IN /\ n <= Len(meant)
     /\ \A k \in 1 .. n : taken[k] = [t |-> meant[k].t, v |-> meant[k].v]
     /\ ls.err # "" => n = Len(meant) /\ ls.err # "outside" /\ (n > 0 => meant[n].t # "<eof>")
     /\ ls.err = "" /\ n > 0 =>
          /\ ls.linenumber = meant[Furthest(n)].line
          /\ n > 1 => ls.lastline = meant[Furthest(n - 1)].line
================================================================================
