---------------------------- MODULE LuaPatterns ----------------------------
(***************************************************************************)
(* What the functions on strings and tables give, from the manual (5.4 to  *)
(* 5.5): a pattern is a sequence of items, an item has all its outcomes,   *)
(* the preferred ones first, and a match is the first outcome of all items *)
(* at the first place that has one.  There is no position in the pattern   *)
(* and nothing to undo.                                                    *)
(***************************************************************************)
EXTENDS LuaLib

From(s, i) == SubSeq(s, i, Len(s))
Alphabet == DOMAIN Charset
Chars(from, to) == {c \in Alphabet : uchar(from) <= uchar(c) /\ uchar(c) <= uchar(to)}
Class(c)   == IF tolower(c) \notin DOMAIN Classes THEN {c}
              ELSE IF c \in islower THEN Classes[c] ELSE Alphabet \ Classes[tolower(c)]

\* The tokens between brackets: an escaped character, a range or one character.
Token(q) == IF At(q, 1) = "%" /\ Len(q) > 1 THEN 2 ELSE 1
RECURSIVE Members(_), Closing(_)
Members(q) == IF q = "" THEN {}
              ELSE IF At(q, 1) = "%" THEN Class(At(q, 2)) \cup Members(From(q, 3))
              ELSE IF At(q, 2) = "-" /\ Len(q) > 2 THEN Chars(At(q, 1), At(q, 3)) \cup Members(From(q, 4))
              ELSE {At(q, 1)} \cup Members(From(q, 2))
\* The characters up to the bracket that closes the set, which cannot be the
\* first one; none for a set that is not closed.
Closing(q) == IF q = "" \/ (Len(q) = 1) THEN -1000
              ELSE IF At(q, Token(q) + 1) = "]" THEN Token(q) ELSE Token(q) + Closing(From(q, Token(q) + 1))

\* The characters that make up the first item of q, and those it stands for.
Negative(q) == At(q, 2) = "^"
Start(q)    == IF Negative(q) THEN 3 ELSE 2
ItemLength(q) == CASE At(q, 1) = "%" -> IF Len(q) = 1 THEN 0 ELSE 2
                   [] At(q, 1) = "[" -> Start(q) + Closing(From(q, Start(q)))
                   [] OTHER -> 1
CharsOf(q) == LET inner == Members(SubSeq(q, Start(q), ItemLength(q) - 1))
          IN  CASE At(q, 1) = "." -> Alphabet
                [] At(q, 1) = "%" -> Class(At(q, 2))
                [] At(q, 1) = "[" -> IF Negative(q) THEN Alphabet \ inner ELSE inner
                [] OTHER -> {At(q, 1)}
Times == {"?", "*", "+", "-"}

RECURSIVE Items(_)
Items(q) ==
    LET c == At(q, 1)
        d == At(q, 2)
        n == ItemLength(q)
        times == At(q, n + 1)
        f == ItemLength(From(q, 3))
        Then2(item, i) == <<item>> \o Items(From(q, i))
    IN  IF q = "" THEN <<>>
        ELSE IF q = "$" THEN <<<<"end">>>>
        ELSE IF c = "(" THEN IF d = ")" THEN Then2(<<"position">>, 3) ELSE Then2(<<"open">>, 2)
        ELSE IF c = ")" THEN Then2(<<"close">>, 2)
        ELSE IF c = "%" /\ d = "b" THEN IF Len(q) < 4 THEN <<<<"wrong">>>> ELSE Then2(<<"balance", At(q, 3), At(q, 4)>>, 5)
        ELSE IF c = "%" /\ d = "f"
        THEN IF At(q, 3) # "[" \/ f <= 0 THEN <<<<"wrong">>>> ELSE Then2(<<"frontier", CharsOf(From(q, 3))>>, 3 + f)
        ELSE IF c = "%" /\ d \in isdigit THEN Then2(<<"back", uchar(d) - uchar("0")>>, 3)
        ELSE IF n <= 0 THEN <<<<"wrong">>>>
        ELSE Then2(<<"one", CharsOf(q), IF times \in Times THEN times ELSE "">>, n + IF times \in Times THEN 2 ELSE 1)

\* All outcomes of the items at s: an end and the captures, or an error.
Mistake == << <<ERROR, <<>>>> >>
RECURSIVE Outcomes(_, _, _, _)
Outcomes(items, src, s, caps) ==
    LET item == items[1]
        OnFrom(e, cs) == Outcomes(Tail(items), src, e, cs)
        If(test) == IF test THEN OnFrom(s, caps) ELSE <<>>
        Captured(v) == IF Len(caps) = LUA_MAXCAPTURES THEN Mistake ELSE OnFrom(s, Append(caps, v))
        run == CHOOSE n \in 0 .. Len(src) - s + 1 : /\ \A j \in 0 .. n - 1 : At(src, s + j) \in item[2]
                                                    /\ s + n <= Len(src) => At(src, s + n) \notin item[2]
        least == IF item[3] \in {"", "+"} THEN 1 ELSE 0
        most  == IF item[3] \in {"", "?"} /\ run > 1 THEN 1 ELSE run
        counts == IF item[3] = "-" THEN Upto(least, most) ELSE Downto(most, least)
        opened == {j \in DOMAIN caps : caps[j][1] = "from"}
        last   == CHOOSE j \in opened : \A k \in opened : k <= j
        Count(c, e) == Cardinality({j \in s .. e : At(src, j) = c})
        even   == {e \in s + 1 .. Len(src) : IF item[2] = item[3] THEN At(src, e) = item[3]
                                             ELSE Count(item[2], e) = Count(item[3], e)}
        again  == caps[item[2]]
    IN  IF items = <<>> THEN << <<s, caps>> >>
        ELSE CASE item[1] = "one"      -> FlattenSeq([j \in DOMAIN counts |-> OnFrom(s + counts[j], caps)])
               [] item[1] = "position" -> Captured(Num(s))
               [] item[1] = "open"     -> Captured(<<"from", s>>)
               [] item[1] = "close"    -> IF opened = {} THEN Mistake
                                          ELSE OnFrom(s, [caps EXCEPT ![last] = Str(SubSeq(src, @[2], s - 1))])
               [] item[1] = "balance"  -> IF At(src, s) # item[2] \/ even = {} THEN <<>>
                                          ELSE OnFrom((CHOOSE e \in even : \A k \in even : e <= k) + 1, caps)
               [] item[1] = "frontier" -> If(At(src, s - 1) \notin item[2] /\ At(src, s) \in item[2])
               [] item[1] = "back"     -> IF item[2] \notin DOMAIN caps \/ item[2] \in opened THEN Mistake
                                          ELSE IF again[1] = "number" \/ s + Len(again[2]) > Len(src) + 1 THEN <<>>
                                          ELSE IF SubSeq(src, s, s + Len(again[2]) - 1) # again[2] THEN <<>>
                                          ELSE OnFrom(s + Len(again[2]), caps)
               [] item[1] = "end"      -> If(s = Len(src) + 1)
               [] item[1] = "wrong"    -> Mistake

\* The first place from init on that has an outcome, with that outcome.
FirstOf(items, src, starts) ==
    LET places == {s \in starts : Outcomes(items, src, s, <<>>) # <<>>}
        At1(first) == <<first>> \o Outcomes(items, src, first, <<>>)[1]
    IN  IF places = {} THEN <<>> ELSE At1(CHOOSE s \in places : \A t \in places : s <= t)
Found(src, p, init, anchored) ==
    FirstOf(Items(IF anchored THEN From(p, 2) ELSE p), src, init .. (IF anchored THEN init ELSE Len(src) + 1))
Captures(src, found, whole) ==
    IF found[2] = ERROR THEN <<Error>>
    ELSE IF found[3] = <<>> THEN (IF whole THEN <<Str(SubSeq(src, found[1], found[2] - 1))>> ELSE <<>>)
    ELSE [j \in DOMAIN found[3] |-> IF found[3][j][1] = "from" THEN Error ELSE found[3][j]]

\* The matches one after the other, up to one that is an error.
RECURSIVE AllMatches(_, _, _, _)
AllMatches(src, p, from, anchored) ==
    LET AndOn(found) ==
            IF found = <<>> \/ anchored \/ found[2] = ERROR THEN (IF found = <<>> THEN <<>> ELSE <<found>>)
            ELSE <<found>> \o AllMatches(src, p, IF found[2] > found[1] THEN found[2] ELSE found[2] + 1, FALSE)
    IN  IF from > Len(src) + 1 THEN <<>> ELSE AndOn(Found(src, p, from, anchored))

\* The text of a replacement with the captures in the place of %1 and so on.
RECURSIVE Expanded(_, _, _)
Expanded(text, whole, caps) ==
    LET d == At(text, 2)
        k == uchar(d) - uchar("0")
        v == IF At(text, 1) # "%" THEN Str(At(text, 1)) ELSE IF d \notin isdigit THEN Str(d)
             ELSE IF k = 0 THEN Str(whole) ELSE IF k \in DOMAIN caps THEN caps[k] ELSE Error
        rest == Expanded(From(text, IF At(text, 1) = "%" THEN 3 ELSE 2), whole, caps)
    IN  IF text = "" THEN Str("") ELSE IF Error \in {v, rest} THEN Error ELSE Str(tostring(v)[2] \o rest[2])

---------------------------------------------------------------------------
(***************************************************************************)
(* The other functions that only look at their arguments                   *)
(***************************************************************************)
Kinds == [len |-> <<"string">>, sub |-> <<"string", "int", "optint">>, reverse |-> <<"string">>, lower |-> <<"string">>,
          upper |-> <<"string">>, rep |-> <<"string", "int">>, byte |-> <<"string", "optint", "optint">>, char |-> <<>>,
          find |-> <<"string", "string", "optint">>, match |-> <<"string", "string", "optint">>,
          gmatch |-> <<"string", "string">>, gsub |-> <<"string", "string", "any", "optint">>,
          insert |-> <<"table">>, remove |-> <<"table", "optint">>,
          concat |-> <<"table", "optstring", "optint", "optint">>, maxn |-> <<"table">>, getn |-> <<"table">>,
          setn |-> <<"table">>, foreachi |-> <<"table", "function">>, assert |-> <<"any">>, type |-> <<"any">>,
          rawequal |-> <<"any", "any">>, rawget |-> <<"table", "any">>, rawset |-> <<"table", "any", "any">>,
          select |-> <<"any">>, unpack |-> <<"table", "optint", "optint">>, ipairs |-> <<"table">>,
          ipairsaux |-> <<"table", "int">>, xpcall |-> <<"any", "any">>]
Suitable(name, args) == /\ name \in DOMAIN Kinds => \A k \in DOMAIN Kinds[name] : Accepts(Kinds[name][k], args, k)
                        /\ name = "char" => \A k \in DOMAIN args : isnumber(args[k])
                        /\ name = "insert" /\ Len(args) = 3 => isnumber(args[2])

FromEnd(i, len) == IF i < 0 THEN len + 1 + i ELSE i
Between(s, i, j) == LET ks == {k \in 1 .. Len(s) : FromEnd(i, Len(s)) <= k /\ k <= FromEnd(j, Len(s))}
                    IN  SelectSeq([k \in 1 .. Len(s) |-> k], LAMBDA k : k \in ks)
Spelt(s, ks)   == FoldLeft(LAMBDA b, k : b \o At(s, k), "", ks)
Swapped(s, to) == FoldLeft(LAMBDA b, k : b \o IF At(s, k) \in DOMAIN to THEN to[At(s, k)] ELSE At(s, k), "",
                                 Upto(1, Len(s)))
Inverted(f) == [y \in {f[x] : x \in DOMAIN f} |-> CHOOSE x \in DOMAIN f : f[x] = y]

StringValues(name, a) ==
    LET s == Text(a, 1)
        p == Text(a, 2)
        init == CHOOSE i \in 1 .. Len(s) + 1 : LET w == FromEnd(optint(a, 3, 1), Len(s))
                                               IN  i = IF w < 1 THEN 1 ELSE IF w > Len(s) + 1 THEN Len(s) + 1 ELSE w
        \* find looks for the text itself when it is asked to, and when no
        \* character of the pattern is special: a ) alone is no error then.
        literally == ~l_isfalse(Arg(a, 4)) \/ \A i \in 1 .. Len(p) : At(p, i) \notin SPECIALS
        plain == {i \in init .. Len(s) - Len(p) + 1 : SubSeq(s, i, i + Len(p) - 1) = p}
        least == CHOOSE i \in plain : \A j \in plain : i <= j
        Place(found) == IF name = "find" THEN <<Num(found[1]), Num(found[2] - 1)>> ELSE <<>>
        Values(found) == IF found = <<>> THEN <<Nil>> ELSE Place(found) \o Captures(s, found, name = "match")
    IN  CASE name = "len"     -> <<Num(Len(s))>>
          [] name = "sub"     -> <<Str(Spelt(s, Between(s, optint(a, 2, 1), optint(a, 3, -1))))>>
          [] name = "byte"    -> LET i == optint(a, 2, 1)
                                     ks == Between(s, i, optint(a, 3, i))
                                 IN  [j \in DOMAIN ks |-> Num(uchar(At(s, ks[j])))]
          [] name = "reverse" -> <<Str(Spelt(s, Downto(Len(s), 1)))>>
          [] name = "lower"   -> <<Str(Swapped(s, Lower))>>
          [] name = "upper"   -> <<Str(Swapped(s, Inverted(Lower)))>>
          [] name = "rep"     -> <<Str(FoldLeft(LAMBDA b, k : s \o b, "", Upto(1, optint(a, 2, 0))))>>
          [] name = "char"    -> <<Str(FoldLeft(LAMBDA b, v : b \o CHOOSE c \in Alphabet : Num(uchar(c)) = luaV_tonumber(v),
                                                "", a))>>
          [] name = "find" /\ literally ->
               IF plain = {} THEN <<Nil>> ELSE <<Num(least), Num(least + Len(p) - 1)>>
          [] name \in {"find", "match"} /\ (name = "match" \/ ~literally) ->
               Values(Found(s, p, init, At(p, 1) = "^"))
StringNames == {"len", "sub", "byte", "reverse", "lower", "upper", "rep", "char", "find", "match"}
=============================================================================
