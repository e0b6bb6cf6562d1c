-------------------------------- MODULE LuaMatch --------------------------------
(***************************************************************************)
(* Pattern matching of Lua: lstrlib.c from posrelat to lmemfind.  A text   *)
(* is the sequence of its characters, ended by a NUL that is not counted;  *)
(* a pointer into it is an index, from 1 to one after its length, and      *)
(* NULL is 0.  MatchState ms has the source and the pattern too, and where *)
(* the match ends: at, with the error that was raised.                     *)
(***************************************************************************)
EXTENDS Integers, Sequences, SequencesExt, FiniteSetsExt

CONSTANT LUA_MAXCAPTURES

NULL == 0
NUL == "NUL"
ESC == "%"
CAP_UNFINISHED == -1
CAP_POSITION == -2

(* The character p points to. *)
At(text, p) == IF p <= Len(text) THEN text[p] ELSE NUL
End(text) == Len(text) + 1

--------------------------------------------------------------------------------
(* ctype.h, for the characters of ASCII that print. *)
Digits == <<"0", "1", "2", "3", "4", "5", "6", "7", "8", "9">>
UpperCase == <<"A", "B", "C", "D", "E", "F", "G", "H", "I", "J", "K", "L", "M",
               "N", "O", "P", "Q", "R", "S", "T", "U", "V", "W", "X", "Y", "Z">>
LowerCase == <<"a", "b", "c", "d", "e", "f", "g", "h", "i", "j", "k", "l", "m",
               "n", "o", "p", "q", "r", "s", "t", "u", "v", "w", "x", "y", "z">>
Marks == <<"!", "\"", "#", "$", ESC, "&", "'", "(", ")", "*", "+", ",", "-", ".", "/">>
Ascii == <<" ">> \o Marks \o Digits \o <<":", ";", "<", "=", ">", "?", "@">> \o UpperCase
         \o <<"[", "\\", "]", "^", "_", "grave">> \o LowerCase \o <<"{", "|", "}", "~">>
code(c) == IF c = NUL THEN 0 ELSE 31 + CHOOSE i \in DOMAIN Ascii : Ascii[i] = c
isdigit(c) == c \in ToSet(Digits)
isupper(c) == c \in ToSet(UpperCase)
islower(c) == c \in ToSet(LowerCase)
isalpha(c) == isupper(c) \/ islower(c)
isalnum(c) == isalpha(c) \/ isdigit(c)
ispunct(c) == c \in ToSet(Ascii) /\ ~isalnum(c) /\ c # " "
IndexIn(s, c) == CHOOSE i \in DOMAIN s : s[i] = c
tolower(c) == IF isupper(c) THEN LowerCase[IndexIn(UpperCase, c)] ELSE c
toupper(c) == IF islower(c) THEN UpperCase[IndexIn(LowerCase, c)] ELSE c
isxdigit(c) == isdigit(c) \/ tolower(c) \in ToSet(SubSeq(LowerCase, 1, 6))

ClassLetters == {"a", "c", "d", "l", "p", "s", "u", "w", "x", "z"}
InClass(c, cl) ==
  CASE cl = "a" -> isalpha(c)
    [] cl = "c" -> c = NUL
    [] cl = "d" -> isdigit(c)
    [] cl = "l" -> islower(c)
    [] cl = "p" -> ispunct(c)
    [] cl = "s" -> c = " "
    [] cl = "u" -> isupper(c)
    [] cl = "w" -> isalnum(c)
    [] cl = "x" -> isxdigit(c)
    [] cl = "z" -> c = NUL
match_class(c, cl) ==
  IF tolower(cl) \in ClassLetters THEN InClass(c, tolower(cl)) = islower(cl) ELSE cl = c

--------------------------------------------------------------------------------
(* One character of a pattern: its end, or NULL if it has none. *)
RECURSIVE BracketEnd(_, _)
BracketEnd(pat, p) ==
  LET next == IF At(pat, p) = ESC /\ At(pat, p + 1) # NUL THEN p + 2 ELSE p + 1
  IN IF At(pat, p) = NUL THEN NULL
     ELSE IF At(pat, next) = "]" THEN next + 1 ELSE BracketEnd(pat, next)
(* A mutant: what follows an escape is not looked at. *)
classendUnseen(pat, p) ==
  CASE At(pat, p) = ESC -> p + 2
    [] At(pat, p) = "[" -> BracketEnd(pat, IF At(pat, p + 1) = "^" THEN p + 2 ELSE p + 1)
    [] OTHER -> p + 1
classend(pat, p) ==
  CASE At(pat, p) = ESC -> IF At(pat, p + 1) = NUL THEN NULL ELSE p + 2
    [] At(pat, p) = "[" -> BracketEnd(pat, IF At(pat, p + 1) = "^" THEN p + 2 ELSE p + 1)
    [] OTHER -> p + 1

RECURSIVE InSet(_, _, _, _)
InSet(c, pat, p, ec) ==
  CASE p >= ec -> FALSE
    [] p < ec /\ At(pat, p) = ESC -> match_class(c, At(pat, p + 1)) \/ InSet(c, pat, p + 2, ec)
    [] p < ec /\ At(pat, p) # ESC /\ At(pat, p + 1) = "-" /\ p + 2 < ec ->
         code(c) \in code(At(pat, p)) .. code(At(pat, p + 2)) \/ InSet(c, pat, p + 3, ec)
    [] OTHER -> At(pat, p) = c \/ InSet(c, pat, p + 1, ec)
matchbracketclass(c, pat, p, ec) ==
  IF At(pat, p + 1) = "^" THEN ~InSet(c, pat, p + 2, ec) ELSE InSet(c, pat, p + 1, ec)
singlematch(c, pat, p, ep) ==
  CASE At(pat, p) = "." -> TRUE
    [] At(pat, p) = ESC -> match_class(c, At(pat, p + 1))
    [] At(pat, p) = "[" -> matchbracketclass(c, pat, p, ep - 1)
    [] OTHER -> At(pat, p) = c

--------------------------------------------------------------------------------
MatchState(src, pat) == [src |-> src, pat |-> pat, capture |-> <<>>, at |-> NULL, err |-> ""]
Found(ms) == ms.at # NULL
Settled(ms) == Found(ms) \/ ms.err # ""
Succeeds(ms, s) == [ms EXCEPT !.at = s]
luaL_error(ms, msg) == [ms EXCEPT !.err = msg]
(* There is a character of the source that the item accepts. *)
Accepts(ms, s, p, ep) == s < End(ms.src) /\ singlematch(ms.src[s], ms.pat, p, ep)

ValidIndex(ms, l) == l \in DOMAIN ms.capture /\ ms.capture[l].len # CAP_UNFINISHED
DigitOf(c) == IndexIn(Digits, c) - 1
Unfinished(ms) == {l \in DOMAIN ms.capture : ms.capture[l].len = CAP_UNFINISHED}
capture_to_close(ms) == IF Unfinished(ms) = {} THEN NULL ELSE Max(Unfinished(ms))

(* After the end of what begins with b and has as many e as b. *)
RECURSIVE Balanced(_, _, _, _, _)
Balanced(src, s, b, e, cont) ==
  CASE s = End(src) -> NULL
    [] s < End(src) /\ src[s] = e -> IF cont = 1 THEN s + 1 ELSE Balanced(src, s + 1, b, e, cont - 1)
    [] OTHER -> Balanced(src, s + 1, b, e, IF src[s] = b THEN cont + 1 ELSE cont)
matchbalance(ms, s, p) ==
  IF At(ms.src, s) # At(ms.pat, p) THEN NULL
  ELSE Balanced(ms.src, s + 1, At(ms.pat, p), At(ms.pat, p + 1), 1)

Between(ms, s, p, ep) ==
  /\ ~matchbracketclass(IF s = 1 THEN NUL ELSE ms.src[s - 1], ms.pat, p, ep - 1)
  /\ matchbracketclass(At(ms.src, s), ms.pat, p, ep - 1)

(* The same text again, at s; a position has no text. *)
match_capture(ms, s, l) ==
  LET len == ms.capture[l].len
      init == ms.capture[l].init
  IN IF len >= 0 /\ s + len <= End(ms.src) /\ SubSeq(ms.src, init, init + len - 1) = SubSeq(ms.src, s, s + len - 1)
     THEN s + len ELSE NULL

(* What becomes of a capture when the rest has not matched. *)
Unopened(res) == IF Found(res) THEN res ELSE [res EXCEPT !.capture = Front(@)]
(* A mutant: it stays closed. *)
LeftClosed(res, l) == res
Unclosed(res, l) == IF Found(res) THEN res ELSE [res EXCEPT !.capture[l].len = CAP_UNFINISHED]

RECURSIVE match(_, _, _), expand(_, _, _, _), min_expand(_, _, _, _)
(* The most repetitions first. *)
expand(ms, s, i, rest) ==
  LET res == match(ms, s + i, rest)
  IN IF Settled(res) \/ i = 0 THEN res ELSE expand(res, s, i - 1, rest)
Repetitions(ms, s, p, ep) ==
  {i \in 0 .. End(ms.src) - s : \A j \in 0 .. i - 1 : Accepts(ms, s + j, p, ep)}
max_expand(ms, s, p, ep) == expand(ms, s, Max(Repetitions(ms, s, p, ep)), ep + 1)
min_expand(ms, s, p, ep) ==
  LET res == match(ms, s, ep + 1)
  IN IF Settled(res) \/ ~Accepts(ms, s, p, ep) THEN res ELSE min_expand(res, s + 1, p, ep)

start_capture(ms, s, p, what) ==
  IF Len(ms.capture) >= LUA_MAXCAPTURES THEN luaL_error(ms, "too many captures")
  ELSE Unopened(match([ms EXCEPT !.capture = Append(@, [init |-> s, len |-> what])], s, p))
end_capture(ms, s, p) ==
  LET l == capture_to_close(ms)
  IN IF l = NULL THEN luaL_error(ms, "invalid pattern capture")
     ELSE Unclosed(match([ms EXCEPT !.capture[l].len = s - ms.capture[l].init], s, p), l)

(* The rest is matched from s on, if s is somewhere. *)
Goes(ms, s, p) == IF s = NULL THEN ms ELSE match(ms, s, p)
Frontier(ms, s, p, ep) ==
  IF ep = NULL THEN luaL_error(ms, "malformed pattern")
  ELSE Goes(ms, IF Between(ms, s, p, ep) THEN s ELSE NULL, ep)
Escaped(ms, s, p, c) ==
  CASE c = "b" -> IF NUL \in {At(ms.pat, p + 2), At(ms.pat, p + 3)} THEN luaL_error(ms, "unbalanced pattern")
                  ELSE Goes(ms, matchbalance(ms, s, p + 2), p + 4)
    [] c = "f" -> IF At(ms.pat, p + 2) # "[" THEN luaL_error(ms, "missing '[' after '%f' in pattern")
                  ELSE Frontier(ms, s, p + 2, classend(ms.pat, p + 2))
    [] isdigit(c) -> IF ~ValidIndex(ms, DigitOf(c)) THEN luaL_error(ms, "invalid capture index")
                     ELSE Goes(ms, match_capture(ms, s, DigitOf(c)), p + 2)
(* An item and what repeats it. *)
Item(ms, s, p, ep) ==
  LET m == Accepts(ms, s, p, ep)
  IN CASE At(ms.pat, ep) = "?" -> LET res == Goes(ms, IF m THEN s + 1 ELSE NULL, ep + 1)
                                  IN IF Settled(res) THEN res ELSE match(res, s, ep + 1)
       [] At(ms.pat, ep) = "*" -> max_expand(ms, s, p, ep)
       [] At(ms.pat, ep) = "+" -> IF m THEN max_expand(ms, s + 1, p, ep) ELSE ms
       [] At(ms.pat, ep) = "-" -> min_expand(ms, s, p, ep)
       [] OTHER -> Goes(ms, IF m THEN s + 1 ELSE NULL, ep)
(* The characters at s and p are read, and then the one that follows p. *)
Inside(ms, s, p) == s <= End(ms.src) /\ p <= End(ms.pat)
Default(ms, s, p, ep) ==
  CASE ep = NULL -> luaL_error(ms, "malformed pattern")
    [] ep # NULL /\ ~Inside(ms, s, ep) -> luaL_error(ms, "outside")
    [] OTHER -> Item(ms, s, p, ep)
Matched(ms, s, p, c, next) ==
  CASE c = "(" -> IF next = ")" THEN start_capture(ms, s, p + 2, CAP_POSITION)
                  ELSE start_capture(ms, s, p + 1, CAP_UNFINISHED)
    [] c = ")" -> end_capture(ms, s, p + 1)
    [] c = ESC /\ (next \in {"b", "f"} \/ isdigit(next)) -> Escaped(ms, s, p, next)
    [] c = NUL -> Succeeds(ms, s)
    [] c = "$" /\ next = NUL -> IF s = End(ms.src) THEN Succeeds(ms, s) ELSE ms
    [] OTHER -> Default(ms, s, p, classend(ms.pat, p))
match(ms, s, p) ==
  IF Inside(ms, s, p) THEN Matched(ms, s, p, At(ms.pat, p), At(ms.pat, p + 1))
  ELSE luaL_error(ms, "outside")
================================================================================
