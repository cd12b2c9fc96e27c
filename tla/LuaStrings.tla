----------------------------- MODULE LuaStrings -----------------------------
(***************************************************************************)
(* The functions on strings (lstrlib.c), with the matcher of patterns.     *)
(*                                                                         *)
(* A character is a string of one printable one; the NUL that C finds at   *)
(* the end of a string is "".  Pointers are positions, from 1.  A match m  *)
(* has its subject and pattern, the captures made so far, and its outcome  *)
(* e: a position, NULL, or ERROR for what luaL_error ends.                 *)
(***************************************************************************)
EXTENDS LuaVM

CONSTANTS LUA_MAXCAPTURES,
          Charset,    \* the code of each character
          Ctype,      \* the classes of characters of ctype.h, by name
          Lower       \* the lower case of each upper case letter

NULL  == 0
ERROR == -1
Error == <<"error">>    \* among the results of a function: it fails

At(s, i)  == IF i \in 1 .. Len(s) THEN SubSeq(s, i, i) ELSE ""
uchar(c)  == Charset[c]

---------------------------------------------------------------------------
(***************************************************************************)
(* Classes of characters                                                   *)
(***************************************************************************)
islower == Ctype.lower
isdigit == Ctype.digit
Classes == [a |-> Ctype.alpha, c |-> Ctype.cntrl, d |-> isdigit, l |-> islower, p |-> Ctype.punct, s |-> Ctype.space,
            u |-> Ctype.upper, w |-> Ctype.alnum, x |-> Ctype.xdigit, z |-> {""}]
tolower(c) == IF c \in DOMAIN Lower THEN Lower[c] ELSE c
toupper(c) == IF c \in islower THEN CHOOSE d \in DOMAIN Lower : Lower[d] = c ELSE c

match_class(c, cl) ==
    IF tolower(cl) \notin DOMAIN Classes THEN c = cl
    ELSE (c \in Classes[tolower(cl)]) = (cl \in islower)

\* Where the item of the pattern that begins at i ends.
RECURSIVE setend(_, _)
setend(p, i) ==
    LET next == IF At(p, i) = "%" /\ At(p, i + 1) # "" THEN i + 2 ELSE i + 1
    IN  IF At(p, i) = "" THEN ERROR ELSE IF At(p, next) = "]" THEN next + 1 ELSE setend(p, next)
classend(p, i) ==
    CASE At(p, i) = "%" -> IF At(p, i + 1) = "" THEN ERROR ELSE i + 2
      [] At(p, i) = "[" -> setend(p, IF At(p, i + 1) = "^" THEN i + 2 ELSE i + 1)
      [] OTHER -> i + 1

\* A set has its bracket at i, or the ^ after it, and ends at ec.
RECURSIVE inset(_, _, _, _)
inset(c, p, i, ec) ==
    LET range == At(p, i + 2) = "-" /\ i + 3 < ec
    IN  /\ i + 1 < ec
        /\ CASE At(p, i + 1) = "%" -> match_class(c, At(p, i + 2)) \/ inset(c, p, i + 2, ec)
             [] At(p, i + 1) # "%" /\ range -> \/ uchar(At(p, i + 1)) <= uchar(c) /\ uchar(c) <= uchar(At(p, i + 3))
                                               \/ inset(c, p, i + 3, ec)
             [] OTHER -> At(p, i + 1) = c \/ inset(c, p, i + 1, ec)
matchbracketclass(c, p, i, ec) == IF At(p, i + 1) = "^" THEN ~inset(c, p, i + 1, ec) ELSE inset(c, p, i, ec)
singlematch(c, p, i, ep) ==
    CASE At(p, i) = "." -> TRUE
      [] At(p, i) = "%" -> match_class(c, At(p, i + 1))
      [] At(p, i) = "[" -> matchbracketclass(c, p, i, ep - 1)
      [] OTHER -> At(p, i) = c

---------------------------------------------------------------------------
(***************************************************************************)
(* The matcher: match(m, s, i) goes on at s with the pattern from i        *)
(***************************************************************************)
CAP_UNFINISHED == -1
CAP_POSITION   == -2
Ends(m, e)     == [m EXCEPT !.e = e]
Finds(m, s)    == s <= Len(m.src)    \* s < ms->src_end
level(m)       == Len(m.capture)

check_capture(m, l) ==
    LET n == uchar(l) - uchar("0") IN IF n \in 1 .. level(m) /\ m.capture[n].len # CAP_UNFINISHED THEN n ELSE ERROR
capture_to_close(m) == SelectLastInSeq(m.capture, LAMBDA c : c.len = CAP_UNFINISHED)

RECURSIVE match(_, _, _)

RECURSIVE balanced(_, _, _, _, _)
balanced(src, s, b, e, cont) ==
    CASE s > Len(src) -> NULL
      [] At(src, s) = e /\ cont = 1 -> s + 1
      [] OTHER -> balanced(src, s + 1, b, e, IF At(src, s) = e THEN cont - 1 ELSE IF At(src, s) = b THEN cont + 1 ELSE cont)
matchbalance(m, s, i) ==
    IF At(m.p, i) = "" \/ At(m.p, i + 1) = "" THEN ERROR
    ELSE IF At(m.src, s) # At(m.p, i) THEN NULL
    ELSE balanced(m.src, s + 1, At(m.p, i), At(m.p, i + 1), 1)

RECURSIVE expand(_, _, _, _)
expand(m, s, i, ep) == IF Finds(m, s) /\ singlematch(At(m.src, s), m.p, i, ep) THEN expand(m, s + 1, i, ep) ELSE s
RECURSIVE reduce(_, _, _, _)
reduce(m, s, from, ep) ==
    LET res == match(m, s, ep + 1) IN IF res.e # NULL \/ s = from THEN res ELSE reduce(m, s - 1, from, ep)
max_expand(m, s, i, ep) == reduce(m, expand(m, s, i, ep), s, ep)
RECURSIVE min_expand(_, _, _, _)
min_expand(m, s, i, ep) ==
    LET res == match(m, s, ep + 1)
    IN  IF res.e # NULL \/ ~Finds(m, s) \/ ~singlematch(At(m.src, s), m.p, i, ep) THEN res
        ELSE min_expand(m, s + 1, i, ep)

\* A capture is undone when what follows it does not match.
start_capture(m, s, i, what) ==
    LET res == match([m EXCEPT !.capture = Append(@, [init |-> s, len |-> what])], s, i)
    IN  IF level(m) >= LUA_MAXCAPTURES THEN Ends(m, ERROR)
        ELSE IF res.e = NULL THEN [res EXCEPT !.capture = Front(@)] ELSE res
end_capture(m, s, i) ==
    LET l == capture_to_close(m)
        res == match([m EXCEPT !.capture[l].len = s - m.capture[l].init], s, i)
    IN  IF l = 0 THEN Ends(m, ERROR)
        ELSE IF res.e = NULL THEN [res EXCEPT !.capture[l].len = CAP_UNFINISHED] ELSE res
\* A capture of a position has a length that no rest of the subject has.
match_capture(m, s, n) ==
    LET c == m.capture[n]
    IN  IF n = ERROR THEN ERROR
        ELSE IF /\ c.len # CAP_POSITION /\ Len(m.src) - s + 1 >= c.len
                /\ SubSeq(m.src, s, s + c.len - 1) = SubSeq(m.src, c.init, c.init + c.len - 1)
        THEN s + c.len ELSE NULL

Goon(m, e, i) == IF e \in {NULL, ERROR} THEN Ends(m, e) ELSE match(m, e, i)
frontier(m, s, i) ==
    LET ep == classend(m.p, i)
        In(c) == matchbracketclass(c, m.p, i, ep - 1)
    IN  IF At(m.p, i) # "[" \/ ep = ERROR THEN ERROR
        ELSE IF In(At(m.src, s - 1)) \/ ~In(At(m.src, s)) THEN NULL ELSE s
SingleTo(m, s, i, ep) ==
    LET ok == Finds(m, s) /\ singlematch(At(m.src, s), m.p, i, ep)
        once == match(m, s + 1, ep + 1)
    IN  CASE ep = ERROR -> Ends(m, ERROR)
          [] ep # ERROR /\ At(m.p, ep) = "?" -> IF ok /\ once.e # NULL THEN once ELSE match(m, s, ep + 1)
          [] ep # ERROR /\ At(m.p, ep) = "*" -> max_expand(m, s, i, ep)
          [] ep # ERROR /\ At(m.p, ep) = "+" -> IF ok THEN max_expand(m, s + 1, i, ep) ELSE Ends(m, NULL)
          [] ep # ERROR /\ At(m.p, ep) = "-" -> min_expand(m, s, i, ep)
          [] OTHER -> IF ok THEN match(m, s + 1, ep) ELSE Ends(m, NULL)
single(m, s, i) == SingleTo(m, s, i, classend(m.p, i))
match(m, s, i) ==
    LET c == At(m.p, i)
        d == At(m.p, i + 1)
    IN  CASE c = "(" -> IF d = ")" THEN start_capture(m, s, i + 2, CAP_POSITION)
                        ELSE start_capture(m, s, i + 1, CAP_UNFINISHED)
          [] c = ")" -> end_capture(m, s, i + 1)
          [] c = "%" /\ d = "b" -> Goon(m, matchbalance(m, s, i + 2), i + 4)
          [] c = "%" /\ d = "f" -> Goon(m, frontier(m, s, i + 2), classend(m.p, i + 2))
          [] c = "%" /\ d \in isdigit -> Goon(m, match_capture(m, s, check_capture(m, d)), i + 2)
          [] c = "" -> Ends(m, s)
          [] c = "$" /\ d = "" -> Ends(m, IF s = Len(m.src) + 1 THEN s ELSE NULL)
          [] OTHER -> single(m, s, i)

anchor(p) == At(p, 1) = "^"
Matched(src, p, s, i) == match([src |-> src, p |-> p, capture |-> <<>>, e |-> NULL], s, i)
\* The first match that begins at s or after it: where, and its outcome.
RECURSIVE Search(_, _, _, _, _)
Search(src, p, s, i, anchored) ==
    LET From(m) == IF m.e # NULL \/ anchored \/ s > Len(src) THEN <<s, m>> ELSE Search(src, p, s + 1, i, anchored)
    IN  From(Matched(src, p, s, i))

push_onecapture(m, i, s, e) ==
    LET c == m.capture[i]
    IN  CASE i > level(m) -> IF i = 1 THEN Str(SubSeq(m.src, s, e - 1)) ELSE Error
          [] i <= level(m) /\ c.len = CAP_UNFINISHED -> Error
          [] i <= level(m) /\ c.len = CAP_POSITION   -> Num(c.init)
          [] OTHER -> Str(SubSeq(m.src, c.init, c.init + c.len - 1))
push_captures(m, s, e) ==
    [i \in 1 .. (IF level(m) = 0 /\ s # NULL THEN 1 ELSE level(m)) |-> push_onecapture(m, i, s, e)]

---------------------------------------------------------------------------
(***************************************************************************)
(* The functions, from the values they are given to those they return      *)
(***************************************************************************)
Arg(a, k)     == IF k <= Len(a) THEN a[k] ELSE Nil
Text(a, k)    == tostring(a[k])[2]
optint(a, k, default) == IF Arg(a, k) = Nil THEN default ELSE luaV_tonumber(a[k])[2]
AtMost(x, y)  == IF x < y THEN x ELSE y
AtLeast(x, y) == IF x > y THEN x ELSE y
posrelat(pos, len) == LET p == IF pos < 0 THEN pos + len + 1 ELSE pos IN AtLeast(p, 0)
Mapped(s, F(_))    == FoldLeft(LAMBDA b, i : b \o F(At(s, i)), "", [i \in 1 .. Len(s) |-> i])

str_len(a) == <<Num(Len(Text(a, 1)))>>
str_sub(a) ==
    LET l == Len(Text(a, 1))
        start == AtLeast(posrelat(optint(a, 2, 0), l), 1)
        end == AtMost(posrelat(optint(a, 3, -1), l), l)
    IN  <<Str(IF start <= end THEN SubSeq(Text(a, 1), start, end) ELSE "")>>
str_reverse(a) == <<Str(FoldLeft(LAMBDA b, i : At(Text(a, 1), i) \o b, "", [i \in 1 .. Len(Text(a, 1)) |-> i]))>>
str_lower(a)   == <<Str(Mapped(Text(a, 1), tolower))>>
str_upper(a)   == <<Str(Mapped(Text(a, 1), toupper))>>
str_rep(a)     == <<Str(FoldLeft(LAMBDA b, i : b \o Text(a, 1), "", [i \in 1 .. optint(a, 2, 0) |-> i]))>>
str_byte(a) ==
    LET l == Len(Text(a, 1))
        posi == posrelat(optint(a, 2, 1), l)
        pose == AtMost(posrelat(optint(a, 3, posi), l), l)
        from == AtLeast(posi, 1)
    IN  [i \in 1 .. AtLeast(pose - from + 1, 0) |-> Num(uchar(At(Text(a, 1), from + i - 1)))]
str_char(a) == <<Str(FoldLeft(LAMBDA b, v : b \o CHOOSE c \in DOMAIN Charset : Num(uchar(c)) = luaV_tonumber(v), "", a))>>

SPECIALS == {"^", "$", "*", "+", "?", ".", "(", "[", "%", "-"}
\* The first place of s2 in s1 from s on; memchr looks for its first character.
RECURSIVE lmemfind(_, _, _)
lmemfind(s1, s, s2) ==
    LET first == {i \in s .. Len(s1) - Len(s2) + 1 : At(s1, i) = At(s2, 1)}
        init == CHOOSE i \in first : \A j \in first : i <= j
    IN  IF s2 = "" THEN s
        ELSE IF first = {} THEN NULL
        ELSE IF SubSeq(s1, init + 1, init + Len(s2) - 1) = SubSeq(s2, 2, Len(s2)) THEN init
        ELSE lmemfind(s1, init + 1, s2)
str_find_aux(a, find) ==
    LET s == Text(a, 1)
        p == Text(a, 2)
        init == AtMost(AtLeast(posrelat(optint(a, 3, 1), Len(s)), 1), Len(s) + 1)
        plain == find /\ (~l_isfalse(Arg(a, 4)) \/ \A i \in 1 .. Len(p) : At(p, i) \notin SPECIALS)
        place == lmemfind(s, init, p)
        Result(from, m) ==
            CASE m.e = ERROR -> <<Error>>
              [] m.e = NULL  -> <<Nil>>
              [] OTHER -> IF find THEN <<Num(from), Num(m.e - 1)>> \o push_captures(m, NULL, NULL)
                          ELSE push_captures(m, from, m.e)
        Of(found) == Result(found[1], found[2])
    IN  IF plain THEN (IF place = NULL THEN <<Nil>> ELSE <<Num(place), Num(place + Len(p) - 1)>>)
        ELSE Of(Search(s, p, init, IF anchor(p) THEN 2 ELSE 1, anchor(p)))

\* What gmatch's function returns when it has come to from, and where it is then.
gmatch_aux(src, p, from) ==
    LET Result(s, m) ==
            CASE m.e = ERROR -> <<<<Error>>, from>>
              [] m.e = NULL  -> <<<<>>, from>>
              [] OTHER       -> <<push_captures(m, s, m.e), IF m.e = s THEN m.e + 1 ELSE m.e>>
        Of(found) == Result(found[1], found[2])
    IN  IF from > Len(src) + 1 THEN <<<<>>, from>> ELSE Of(Search(src, p, from, 1, FALSE))

\* The replacement text news, with the captures it refers to.
RECURSIVE add_s(_, _, _, _)
add_s(m, news, s, e) ==
    LET d == At(news, 2)
        value == IF d = "0" THEN Str(SubSeq(m.src, s, e - 1)) ELSE push_onecapture(m, uchar(d) - uchar("0"), s, e)
        this == IF At(news, 1) # "%" THEN Str(At(news, 1)) ELSE IF d \notin isdigit THEN Str(d) ELSE value
        rest == add_s(m, SubSeq(news, IF At(news, 1) = "%" THEN 3 ELSE 2, Len(news)), s, e)
    IN  IF news = "" THEN Str("") ELSE IF Error \in {this, rest} THEN Error ELSE Str(tostring(this)[2] \o rest[2])
=============================================================================
