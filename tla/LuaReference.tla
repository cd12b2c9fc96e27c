---------------------------- MODULE LuaReference ----------------------------
(***************************************************************************)
(* What a program of Lua means, from its text: the statements are carried  *)
(* out one by one and the expressions evaluated from left to right, as the *)
(* manual describes them (doc/manual.html, 2.4 to 2.8), with no code, no   *)
(* registers and no jumps.  Every variable is a cell of its own, and every *)
(* turn of a loop makes its own variables.                                 *)
(*                                                                         *)
(* A state s has the cells, the heap (1 is the table of the globals), the  *)
(* variables in scope s.env, the extra arguments s.dots, the values s.vs   *)
(* of the expression evaluated last, the calls of the host so far and what *)
(* the host will answer, and whether to go on, break, return or fail.      *)
(***************************************************************************)
EXTENDS LuaPatterns

Going == <<"go">>
Value(s)      == IF s.vs = <<>> THEN Nil ELSE s.vs[1]
Yields(s, vs) == [s EXCEPT !.vs = vs]
One(s)        == Yields(s, <<Value(s)>>)
Fails(s, v)   == [s EXCEPT !.out = <<"error", v>>]
Wrong(s)      == Fails(s, Message)
AndThen(s, F(_)) == IF s.out = Going THEN F(s) ELSE s
Adjusted(vs, n)  == [j \in 1..n |-> IF j <= Len(vs) THEN vs[j] ELSE Nil]
Declared(s, names, vs) ==
    [s EXCEPT !.cells = @ \o Adjusted(vs, Len(names)),
              !.env = @ \o [j \in DOMAIN names |-> <<names[j], Len(s.cells) + j>>]]
CellOf(s, n) == LET j == SelectLastInSeq(s.env, LAMBDA v : v[1] = n) IN IF j = 0 THEN 0 ELSE s.env[j][2]
Handler(s, v, ev) == luaT_gettmbyobj(s, v, ev)

\* What is evaluated, carried out or called: an expression, an operand, a
\* statement or one of the forms that Do lists last.
RECURSIVE Do(_, _)

---------------------------------------------------------------------------
(***************************************************************************)
(* Expressions                                                             *)
(***************************************************************************)
Level(o) == CASE o = "or" -> 1 [] o = "and" -> 2 [] o = ".." -> 4 [] o \in {"+", "-"} -> 5 [] o \in {"*", "%"} -> 6
              [] OTHER -> 3
Binary(x) == {i \in 2 .. Len(x) : x[i][1] = "op" /\ x[i - 1][1] # "op"}
\* The operator applied last: the loosest, and the last one of those unless
\* it is right associative.
Loosest(x) == {i \in Binary(x) : \A j \in Binary(x) : Level(x[i][2]) <= Level(x[j][2])}
MainOp(x) == CHOOSE i \in Loosest(x) : \A j \in Loosest(x) : IF x[i][2] = ".." THEN i <= j ELSE i >= j

ByHandler(s, h, args) == IF h = Nil THEN Wrong(s) ELSE AndThen(Do(s, <<"apply", h, args>>), One)
EitherHandler(s, v, w, ev) == IF Handler(s, v, ev) # Nil THEN Handler(s, v, ev) ELSE Handler(s, w, ev)
CommonHandler(s, v, w, ev) == IF Handler(s, v, ev) = Handler(s, w, ev) THEN Handler(s, v, ev) ELSE Nil
Truth(s) == Yields(s, <<Bool(~l_isfalse(Value(s)))>>)
Negated(s) == Yields(s, <<Bool(l_isfalse(Value(s)))>>)

Calculated(s, o, v, w) ==
    IF isnumber(v) /\ isnumber(w) THEN Yields(s, <<Arithmetic(o, luaV_tonumber(v), luaV_tonumber(w))>>)
    ELSE ByHandler(s, EitherHandler(s, v, w, event(o)), <<v, w>>)
Concatenated(s, v, w) ==
    IF {ttype(v), ttype(w)} \subseteq {"string", "number"} THEN Yields(s, <<Str(tostring(v)[2] \o tostring(w)[2])>>)
    ELSE ByHandler(s, EitherHandler(s, v, w, "__concat"), <<v, w>>)
Equal(s, v, w) ==
    IF v[1] = "table" /\ w[1] = "table" /\ v # w /\ CommonHandler(s, v, w, "__eq") # Nil
    THEN AndThen(ByHandler(s, CommonHandler(s, v, w, "__eq"), <<v, w>>), Truth)
    ELSE Yields(s, <<Bool(v = w /\ v # nan)>>)
Compared(s, v, w, o) ==
    IF ttype(v) = ttype(w) /\ ttype(v) \in {"number", "string"} THEN Yields(s, <<Bool(Ordered(v, w, o))>>)
    ELSE IF ttype(v) # ttype(w) THEN Wrong(s)
    ELSE IF o = "LE" /\ CommonHandler(s, v, w, "__le") = Nil
    THEN AndThen(ByHandler(s, CommonHandler(s, v, w, "__lt"), <<w, v>>), Negated)
    ELSE AndThen(ByHandler(s, CommonHandler(s, v, w, IF o = "LT" THEN "__lt" ELSE "__le"), <<v, w>>), Truth)

Operation(s, o, v, w) ==
    CASE o = "+" -> Calculated(s, "ADD", v, w) [] o = "-" -> Calculated(s, "SUB", v, w)
      [] o = "*" -> Calculated(s, "MUL", v, w) [] o = "%" -> Calculated(s, "MOD", v, w)
      [] o = ".." -> Concatenated(s, v, w)
      [] o = "==" -> Equal(s, v, w) [] o = "~=" -> AndThen(Equal(s, v, w), Negated)
      [] o = "<"  -> Compared(s, v, w, "LT") [] o = "<=" -> Compared(s, v, w, "LE")
      [] o = ">"  -> Compared(s, w, v, "LT") [] o = ">=" -> Compared(s, w, v, "LE")
UnaryOperation(s, o, v) ==
    CASE o = "not" -> Yields(s, <<Bool(l_isfalse(v))>>)
      [] o = "-"   -> Calculated(s, "UNM", v, v)
      [] o = "#" /\ v[1] = "table"  -> Yields(s, <<Num(luaH_getn(s, v[2]))>>)
      [] o = "#" /\ v[1] = "string" -> Yields(s, <<Num(Len(v[2]))>>)
      [] o = "#" /\ v[1] \notin {"table", "string"} -> Wrong(s)

Expression(s, x) ==
    LET i == MainOp(x)
        right == <<"expr", SubSeq(x, i + 1, Len(x))>>
        Decided(g) == (x[i][2] = "and") = l_isfalse(Value(g))
        Rest(g) == IF x[i][2] \notin {"and", "or"}
                   THEN AndThen(Do(g, right), LAMBDA h : Operation(h, x[i][2], Value(g), Value(h)))
                   ELSE IF Decided(g) THEN One(g) ELSE AndThen(Do(g, right), One)
    IN  IF Len(x) = 1 THEN Do(s, x[1])
        ELSE IF Binary(x) = {}
        THEN AndThen(Do(s, <<"expr", Tail(x)>>), LAMBDA g : UnaryOperation(g, x[1][2], Value(g)))
        ELSE AndThen(Do(s, <<"expr", SubSeq(x, 1, i - 1)>>), Rest)

\* Of a list, all but the last give one value.
ListValues(s, xs) ==
    IF xs = <<>> THEN Yields(s, <<>>)
    ELSE IF Len(xs) = 1 THEN Do(s, <<"expr", xs[1]>>)
    ELSE AndThen(Do(s, <<"expr", xs[1]>>),
                 LAMBDA g : AndThen(Do(g, <<"list", Tail(xs)>>), LAMBDA h : Yields(h, <<Value(g)>> \o h.vs)))

Constructed(s, fields) ==
    LET last == Len(fields)
        Store(g, t, ks, vs) == IF \E j \in DOMAIN ks : ks[j] \in {Nil, nan} THEN Wrong(g)
                               ELSE FoldLeft(LAMBDA h, j : Rawset(h, t, ks[j], vs[j]), g, [j \in DOMAIN ks |-> j])
        items(j) == Len(SelectSeq(SubSeq(fields, 1, j), LAMBDA f : f[1] = "item"))
        Item(g, t, j) == AndThen(Do(g, <<"expr", fields[j][2]>>),
                                 LAMBDA h : LET vs == IF j = last THEN h.vs ELSE <<Value(h)>>
                                            IN  Store(h, t, [m \in DOMAIN vs |-> Num(items(j) + m - 1)], vs))
        Pair(g, t, j) == AndThen(Do(g, <<"list", <<fields[j][2], <<<<"paren", fields[j][3]>>>>>>>>),
                                 LAMBDA h : Store(h, t, <<h.vs[1]>>, <<h.vs[2]>>))
        Field(g, t, j) == AndThen(g, LAMBDA h : IF fields[j][1] = "item" THEN Item(h, t, j) ELSE Pair(h, t, j))
        t == Len(s.heap) + 1
    IN  AndThen(FoldLeft(LAMBDA g, j : Field(g, t, j), New(s, NewTable(<<>>)), [j \in DOMAIN fields |-> j]),
                LAMBDA g : Yields(g, <<<<"table", t>>>>))

\* The handlers of event that have been asked are in seen: coming back to
\* one would never end.
Got(s, t, k, seen) ==
    LET h == Handler(s, t, "__index")
        here == t[1] = "table" /\ k \in DOMAIN s.heap[t[2]].map
    IN  IF here THEN Yields(s, <<s.heap[t[2]].map[k]>>)
        ELSE IF h = Nil /\ t[1] = "table" THEN Yields(s, <<Nil>>)
        ELSE IF h = Nil \/ t \in seen THEN Wrong(s)
        ELSE IF ttisfunction(h) THEN ByHandler(s, h, <<t, k>>)
        ELSE Do(s, <<"get", h, k, seen \cup {t}>>)
Stored(s, t, k, v, seen) ==
    LET h == Handler(s, t, "__newindex")
        here == t[1] = "table" /\ (k \in DOMAIN s.heap[t[2]].map \/ h = Nil)
    IN  IF here /\ k \in {Nil, nan} THEN Wrong(s)
        ELSE IF here THEN Rawset(s, t[2], k, v)
        ELSE IF h = Nil \/ t \in seen THEN Wrong(s)
        ELSE IF ttisfunction(h) THEN Do(s, <<"apply", h, <<t, k, v>>>>)
        ELSE Do(s, <<"set", h, k, v, seen \cup {t}>>)

Operand(s, x) ==
    CASE x[1] = "nil"   -> Yields(s, <<Nil>>)
      [] x[1] = "true"  -> Yields(s, <<Bool(TRUE)>>)
      [] x[1] = "false" -> Yields(s, <<Bool(FALSE)>>)
      [] x[1] \in {"number", "string"} -> Yields(s, <<x>>)
      [] x[1] = "dots"  -> Yields(s, s.dots)
      [] x[1] = "paren" -> AndThen(Do(s, <<"expr", x[2]>>), One)
      [] x[1] = "name"  -> IF CellOf(s, x[2]) # 0 THEN Yields(s, <<s.cells[CellOf(s, x[2])]>>)
                           ELSE Do(s, <<"get", Globals, Str(x[2]), {}>>)
      [] x[1] = "table" -> Constructed(s, x[2])
      [] x[1] = "function" -> Yields(New(s, [k |-> "function", x |-> x, env |-> s.env]), <<NewRef(s, "function")>>)
      [] x[1] = "index" -> AndThen(Do(s, <<"list", <<<<x[2]>>, x[3]>>>>),
                                   LAMBDA g : Do(g, <<"get", g.vs[1], Adjusted(g.vs, 2)[2], {}>>))
      [] x[1] = "call"  -> AndThen(Do(s, <<"list", <<<<x[2]>>>> \o x[3]>>),
                                   LAMBDA g : Do(g, <<"apply", Value(g), IF x[3] = <<>> THEN <<>> ELSE Tail(g.vs)>>))
      [] x[1] = "method" ->
           AndThen(Do(s, x[2]), LAMBDA o :
           AndThen(Do(o, <<"get", Value(o), Str(x[3]), {}>>), LAMBDA f :
           AndThen(Do(f, <<"list", x[4]>>), LAMBDA g : Do(g, <<"apply", Value(f), <<Value(o)>> \o g.vs>>))))

---------------------------------------------------------------------------
(***************************************************************************)
(* Statements                                                              *)
(***************************************************************************)
\* A break goes to the end of the loop, and to nowhere else.
Turn(s, b, next) == LET g == Do(s, <<"block", b>>)
                    IN  IF g.out = <<"break">> THEN [g EXCEPT !.out = Going] ELSE AndThen(g, LAMBDA h : Do(h, next))
Scoped(s, g) == [g EXCEPT !.env = s.env]

While(s, x) == AndThen(Do(s, <<"expr", x[2]>>), LAMBDA g : IF l_isfalse(Value(g)) THEN g ELSE Turn(g, x[3], x))
\* The condition sees the variables of the block.
Repeat(s, x) ==
    LET g == Do(s, <<"chunk", x[2]>>)
        c == AndThen(g, LAMBDA h : Do(h, <<"expr", x[3]>>))
    IN  IF g.out = <<"break">> THEN Scoped(s, [g EXCEPT !.out = Going])
        ELSE Scoped(s, AndThen(c, LAMBDA h : IF l_isfalse(Value(h)) THEN Do(Scoped(s, h), x) ELSE h))
If(s, clauses, else) ==
    IF clauses = <<>> THEN (IF else = <<>> THEN s ELSE Do(s, <<"block", else[1]>>))
    ELSE AndThen(Do(s, <<"expr", clauses[1][1]>>),
                 LAMBDA g : IF l_isfalse(Value(g)) THEN Do(g, <<"if", Tail(clauses), else>>)
                            ELSE Do(g, <<"block", clauses[1][2]>>))
Counting(s, name, i, limit, step, b) ==
    IF IF Ordered(Num(0), step, "LT") THEN Ordered(i, limit, "LE") ELSE Ordered(limit, i, "LE")
    THEN Scoped(s, Turn(Declared(s, <<name>>, <<i>>), b, <<"counting", name, Arithmetic("ADD", i, step), limit, step, b>>))
    ELSE s
Iterating(s, names, f, state, control, b) ==
    AndThen(Do(s, <<"apply", f, <<state, control>>>>),
            LAMBDA g : IF Value(g) = Nil THEN g
                       ELSE Scoped(s, Turn(Declared(g, names, g.vs), b, <<"iterating", names, f, state, Value(g), b>>)))

\* What is assigned to is evaluated before the values are.
Places(s, xs) ==
    LET Place(g, x) ==
            IF x[1] = "name" /\ CellOf(g, x[2]) # 0 THEN [g EXCEPT !.places = Append(@, <<"cell", CellOf(g, x[2])>>)]
            ELSE IF x[1] = "name" THEN [g EXCEPT !.places = Append(@, <<"slot", Globals, Str(x[2])>>)]
            ELSE AndThen(Do(g, <<"list", <<<<x[2]>>, x[3]>>>>),
                         LAMBDA h : [h EXCEPT !.places = Append(g.places, <<"slot", h.vs[1], Adjusted(h.vs, 2)[2]>>)])
    IN  FoldLeft(LAMBDA g, x : AndThen(g, LAMBDA h : Place(h, x)), [s EXCEPT !.places = <<>>], xs)
Fill(s, place, v) == IF place[1] = "cell" THEN [s EXCEPT !.cells[place[2]] = v]
                     ELSE Do(s, <<"set", place[2], place[3], v, {}>>)
Assign(s, xs, es) ==
    AndThen(Places(s, xs), LAMBDA p :
    AndThen(Do(p, <<"list", es>>), LAMBDA g :
    FoldRight(LAMBDA j, h : AndThen(h, LAMBDA q : Fill(q, p.places[j], Adjusted(g.vs, Len(xs))[j])),
              [j \in DOMAIN xs |-> j], g)))

Statement(s, x) ==
    CASE x[1] = "local"    -> AndThen(Do(s, <<"list", x[3]>>), LAMBDA g : Declared(g, x[2], g.vs))
      [] x[1] = "assign"   -> Assign(s, x[2], x[3])
      [] x[1] = "callstat" -> Do(s, x[2])
      [] x[1] = "do"       -> Do(s, <<"block", x[2]>>)
      [] x[1] = "while"    -> While(s, x)
      [] x[1] = "repeat"   -> Repeat(s, x)
      [] x[1] = "if"       -> If(s, x[2], x[3])
      [] x[1] = "fornum"   ->
           AndThen(Do(s, <<"list", [j \in DOMAIN x[3] |-> <<<<"paren", x[3][j]>>>>]>>),
                   LAMBDA g : LET v == [j \in 1..3 |-> IF j > Len(g.vs) THEN Num(1) ELSE luaV_tonumber(g.vs[j])]
                              IN  IF \E j \in 1..3 : ttype(v[j]) # "number" THEN Wrong(g)
                                  ELSE Counting(g, x[2], v[1], v[2], v[3], x[4]))
      [] x[1] = "forlist"  ->
           AndThen(Do(s, <<"list", x[3]>>),
                   LAMBDA g : LET v == Adjusted(g.vs, 3) IN Iterating(g, x[2], v[1], v[2], v[3], x[4]))
      [] x[1] = "localfunction" ->
           LET g == Declared(s, <<x[2]>>, <<>>)
           IN  AndThen(Do(g, x[3]), LAMBDA h : [h EXCEPT !.cells[Len(g.cells)] = Value(h)])
      [] x[1] = "funcstat" ->
           Assign(s, <<x[2]>>, <<<<IF x[3] THEN [x[4] EXCEPT ![2] = <<"self">> \o @] ELSE x[4]>>>>)
      [] x[1] = "return"   -> AndThen(Do(s, <<"list", x[2]>>), LAMBDA g : [g EXCEPT !.out = <<"return">>])
      [] x[1] = "break"    -> [s EXCEPT !.out = <<"break">>]

---------------------------------------------------------------------------
(***************************************************************************)
(* Calls                                                                   *)
(***************************************************************************)
Apply(s, f, args) ==
    LET c == s.heap[f[2]]
        extra == SubSeq(args, Len(c.x[2]) + 1, Len(args))
        full == {j \in DOMAIN extra : extra[j] # Nil}
        arg == NewTable([k \in {Num(j) : j \in full} \cup {Str("n")} |->
                            IF k = Str("n") THEN Num(Len(extra)) ELSE extra[k[2]]])
        named == Declared([s EXCEPT !.env = c.env, !.dots = IF c.x[3] THEN extra ELSE <<>>], c.x[2], args)
        entered == IF c.x[3] THEN Declared(New(named, arg), <<"arg">>, <<NewRef(named, "table")>>) ELSE named
        g == Do(entered, <<"block", c.x[4]>>)
    IN  [g EXCEPT !.env = s.env, !.dots = s.dots, !.vs = IF g.out = <<"return">> THEN @ ELSE <<>>,
                  !.out = IF @ = <<"return">> THEN Going ELSE @]
\* A call that may end in an error, with what its error becomes.
Tried(s, f, args, Mended(_)) ==
    LET g == Do(s, <<"apply", f, args>>)
    IN  IF g.out = Going THEN Yields(g, <<Bool(TRUE)>> \o g.vs)
        ELSE AndThen(Mended([g EXCEPT !.env = s.env, !.dots = s.dots, !.out = Going, !.vs = <<g.out[2]>>]),
                     LAMBDA h : Yields(h, <<Bool(FALSE), Value(h)>>))
Control(s, name, args) ==
    LET given == Adjusted(args, 2)
        asked == [s EXCEPT !.trace = Append(@, <<ShownAll(s, args), IF s.answers = <<>> THEN <<"none">> ELSE Head(s.answers)>>),
                           !.answers = IF @ = <<>> THEN <<>> ELSE Tail(@)]
    IN  CASE name \in Host -> IF s.answers # <<>> /\ Head(s.answers)[1] = "returns"
                              THEN Yields(asked, Head(s.answers)[2]) ELSE Wrong(asked)
          [] name = "error" -> IF ~Accepts("optint", args, 2) THEN Wrong(s)
                               ELSE Fails(s, IF isstring(given[1]) /\ optint(args, 2, 1) > 0 THEN Message ELSE given[1])
          [] name = "pcall" -> IF args = <<>> THEN Wrong(s) ELSE Tried(s, args[1], Tail(args), LAMBDA g : g)
          [] name = "xpcall" ->
               Tried(s, args[1], <<>>, LAMBDA g : IF ttisfunction(args[2]) THEN Do(g, <<"apply", args[2], g.vs>>)
                                                  ELSE Yields(g, <<Message>>))
          [] name = "setmetatable" ->
               IF Len(args) < 2 \/ given[1][1] # "table" \/ given[2][1] \notin {"nil", "table"}
                  \/ Handler(s, given[1], "__metatable") # Nil
               THEN Wrong(s)
               ELSE Yields([s EXCEPT !.heap[given[1][2]].meta = IF given[2] = Nil THEN 0 ELSE given[2][2]], <<given[1]>>)
          [] name = "assert" -> IF l_isfalse(args[1]) THEN Wrong(s) ELSE Yields(s, args)
ControlNames == Host \cup {"error", "pcall", "xpcall", "setmetatable", "assert"}

\* The table with the values V(k) for the indices ks.
Overwritten(s, t, ks, V(_)) ==
    LET m    == s.heap[t].map
        kept == {x \in DOMAIN m : x \notin {Num(k) : k \in ks}}
        set  == {k \in ks : V(k) # Nil}
    IN  [s EXCEPT !.heap[t].map = [x \in kept \cup {Num(k) : k \in set} |-> IF x \in kept THEN m[x] ELSE V(x[2])]]
TableLibrary(s, name, a) ==
    LET t == a[1][2]
        at(k) == luaH_get(s, t, Num(k))
        len == luaH_getn(s, t)
        pos == optint(a, 2, len + IF name = "insert" THEN 1 ELSE 0)
        new == IF Len(a) = 2 THEN len + 1 ELSE pos
        numbers == {0} \cup {x[2] : x \in {y \in DOMAIN s.heap[t].map : y[1] = "number"}}
        i == optint(a, 3, 1)
        j == optint(a, 4, len)
        sep == IF Arg(a, 2) = Nil THEN "" ELSE Text(a, 2)
        Extended(b, k) == b \o (IF k = i THEN "" ELSE sep) \o tostring(at(k))[2]
    IN  CASE name = "insert" ->
               IF Len(a) \notin {2, 3} THEN Wrong(s)
               ELSE Yields(Overwritten(s, t, new .. AtLeast(new, len + 1),
                                       LAMBDA k : IF k = new THEN Last(a) ELSE at(k - 1)), <<>>)
          [] name = "remove" ->
               IF pos \notin 1 .. len THEN Yields(s, <<>>)
               ELSE Yields(Overwritten(s, t, pos .. len, LAMBDA k : IF k = len THEN Nil ELSE at(k + 1)), <<at(pos)>>)
          [] name = "concat" -> IF \E k \in i .. j : ~isstring(at(k)) THEN Wrong(s)
                                ELSE Yields(s, <<Str(FoldLeft(Extended, "", Upto(i, j)))>>)
          [] name = "maxn" -> Yields(s, <<Num(CHOOSE x \in numbers : \A y \in numbers : y <= x)>>)
          [] name = "getn" -> Yields(s, <<Num(len)>>)
          [] name = "setn" -> Wrong(s)
          [] name = "foreachi" -> Do(s, <<"foreachi", a[1], a[2], 1, len>>)
          [] name = "rawget" -> Yields(s, <<luaH_get(s, t, a[2])>>)
          [] name = "rawset" -> IF a[2] \in {Nil, nan} THEN Wrong(s) ELSE Yields(Rawset(s, t, a[2], a[3]), <<a[1]>>)
          [] name = "unpack" -> Yields(s, [k \in 1 .. AtLeast(optint(a, 3, len) - optint(a, 2, 1) + 1, 0) |->
                                              at(optint(a, 2, 1) + k - 1)])
          [] name = "ipairs" -> Yields(s, <<<<"C", "ipairsaux">>, a[1], Num(0)>>)
          [] name = "ipairsaux" -> LET k == optint(a, 2, 0) + 1
                                   IN  Yields(s, IF at(k) = Nil THEN <<>> ELSE <<Num(k), at(k)>>)
TableNames == Tables \cup {"rawget", "rawset", "unpack", "ipairs", "ipairsaux"}
EachOf(s, t, f, i, n) ==
    IF i > n THEN Yields(s, <<>>)
    ELSE AndThen(Do(s, <<"apply", f, <<Num(i), luaH_get(s, t[2], Num(i))>>>>),
                 LAMBDA g : IF Value(g) # Nil THEN One(g) ELSE Do(g, <<"foreachi", t, f, i + 1, n>>))

\* The matches left are ms; b is the text for what comes before from.
Substituted(s, src, repl, ms, from, b, n) ==
    LET m == ms[1]
        whole == SubSeq(src, m[1], m[2] - 1)
        caps == Captures(src, m, TRUE)
        text == Expanded(Text(<<repl>>, 1), whole, caps)
        value == IF isstring(repl) THEN IF text = Error THEN Wrong(s) ELSE Yields(s, <<text>>)
                 ELSE IF repl[1] = "table"
                 THEN IF caps[1] = Error THEN Wrong(s) ELSE Do(s, <<"get", repl, caps[1], {}>>)
                 ELSE IF \E j \in DOMAIN caps : caps[j] = Error THEN Wrong(s) ELSE Do(s, <<"apply", repl, caps>>)
        GoOn(g, instead) == Do(g, <<"gsub", src, repl, Tail(ms), m[2], b \o SubSeq(src, from, m[1] - 1) \o instead, n>>)
    IN  IF ms = <<>> THEN Yields(s, <<Str(b \o SubSeq(src, from, Len(src))), Num(n)>>)
        ELSE IF m[2] = ERROR THEN Wrong(s)
        ELSE AndThen(value, LAMBDA g : IF l_isfalse(Value(g)) THEN GoOn(g, whole)
                                       ELSE IF isstring(Value(g)) THEN GoOn(g, tostring(Value(g))[2]) ELSE Wrong(g))
StringLibrary(s, f, a) ==
    LET Checked(g, vs) == IF \E j \in DOMAIN vs : vs[j] = Error THEN Wrong(g) ELSE Yields(g, vs)
        list == s.heap[f[3]].list
        All(found) == [j \in DOMAIN found |-> Captures(Text(a, 1), found[j], TRUE)]
        Replaced(ms) == Do(s, <<"gsub", Text(a, 1), a[3], ms, 1, "", Len(ms)>>)
        Some(all) == SubSeq(all, 1, AtMost(Len(all), optint(a, 4, Len(all))))
    IN  CASE f[2] \in StringNames -> Checked(s, StringValues(f[2], a))
          [] f[2] = "gmatch" ->
               Yields(New(s, [k |-> "matches", list |-> All(AllMatches(Text(a, 1), Text(a, 2), 1, FALSE))]),
                      <<<<"C", "gmatch_aux", Len(s.heap) + 1>>>>)
          [] f[2] = "gmatch_aux" -> IF list = <<>> THEN Yields(s, <<>>)
                                    ELSE Checked([s EXCEPT !.heap[f[3]].list = Tail(@)], list[1])
          [] f[2] = "gsub" ->
               IF ~isstring(a[3]) /\ ~ttisfunction(a[3]) /\ a[3][1] # "table" THEN Wrong(s)
               ELSE Replaced(Some(AllMatches(Text(a, 1), Text(a, 2), 1, At(Text(a, 2), 1) = "^")))
ValueLibrary(s, name, a) ==
    LET rest == Tail(a)
        k == luaV_tonumber(a[1])[2]
        from == IF k < 0 THEN Len(rest) + 1 + k ELSE k
    IN  CASE name = "type" -> Yields(s, <<Str(IF ttisfunction(a[1]) THEN "function" ELSE ttype(a[1]))>>)
          [] name = "rawequal" -> Yields(s, <<Bool(a[1] = a[2] /\ a[1] # nan)>>)
          [] name = "select" -> IF a[1] = Str("#") THEN Yields(s, <<Num(Len(rest))>>)
                                ELSE IF ~isnumber(a[1]) THEN Wrong(s)
                                ELSE IF from < 1 THEN Wrong(s) ELSE Yields(s, SubSeq(rest, from, Len(rest)))
ApplyLibrary(s, f, args) ==
    CASE ~Suitable(f[2], args) -> Wrong(s)
      [] Suitable(f[2], args) /\ f[2] \in ControlNames -> Control(s, f[2], args)
      [] Suitable(f[2], args) /\ f[2] \in TableNames   -> TableLibrary(s, f[2], args)
      [] Suitable(f[2], args) /\ f[2] \in {"type", "rawequal", "select"} -> ValueLibrary(s, f[2], args)
      [] OTHER -> StringLibrary(s, f, args)

Statements == {"local", "assign", "callstat", "do", "while", "repeat", "if", "fornum", "forlist", "localfunction",
               "funcstat", "return", "break"}
Do(s, x) ==
    CASE x[1] = "expr"  -> Expression(s, x[2])
      [] x[1] = "list"  -> ListValues(s, x[2])
      [] x[1] = "get"   -> Got(s, x[2], x[3], x[4])
      [] x[1] = "set"   -> Stored(s, x[2], x[3], x[4], x[5])
      [] x[1] = "chunk" -> FoldLeft(LAMBDA g, y : AndThen(g, LAMBDA h : Do(h, y)), s, x[2])
      [] x[1] = "block" -> Scoped(s, Do(s, <<"chunk", x[2]>>))
      [] x[1] = "counting"  -> Counting(s, x[2], x[3], x[4], x[5], x[6])
      [] x[1] = "iterating" -> Iterating(s, x[2], x[3], x[4], x[5], x[6])
      [] x[1] = "foreachi"  -> EachOf(s, x[2], x[3], x[4], x[5])
      [] x[1] = "gsub"  -> Substituted(s, x[2], x[3], x[4], x[5], x[6], x[7])
      [] x[1] = "apply" -> IF x[2][1] = "function" THEN Apply(s, x[2], x[3])
                           ELSE IF x[2][1] = "C" THEN ApplyLibrary(s, x[2], x[3])
                           ELSE IF ttisfunction(Handler(s, x[2], "__call"))
                           THEN Do(s, <<"apply", Handler(s, x[2], "__call"), <<x[2]>> \o x[3]>>)
                           ELSE Wrong(s)
      [] x[1] \in Statements -> Statement(s, x)
      [] OTHER -> Operand(s, x)

\* What the text does when the host answers so: the calls of the host, and
\* how it ends.
Meaning(text, answers) ==
    LET start == [cells |-> <<>>, heap |-> Libraries, env |-> <<>>, dots |-> <<>>, vs |-> <<>>,
                  trace |-> <<>>, answers |-> answers, places |-> <<>>, out |-> Going]
        Outcome(s) == <<s.trace, IF s.out[1] = "error" THEN <<"error", Shown(s, s.out[2], 2)>>
                                 ELSE <<"values", IF s.out = Going THEN <<>> ELSE ShownAll(s, s.vs)>> >>
    IN  Outcome(Do(start, <<"block", text>>))

(***************************************************************************)
(* The assertions of the parser, the code generator and the virtual        *)
(* machine (lua_assert) hold: among them that every function compiled is   *)
(* one luaG_checkcode accepts, that registers are freed in the order they  *)
(* were taken, that the stack has its top where the next instruction needs *)
(* it.                                                                     *)
(***************************************************************************)
AssertionsHold == program.ok /\ L.ok

(***************************************************************************)
(* What the compiled program does to the host, and what it ends with, is   *)
(* what its text means: no value is lost in a register that is used again, *)
(* no jump leads to the wrong place, no variable is closed too late.       *)
(***************************************************************************)
CodeMeansSource ==
    L.status[1] \in {"values", "error"} =>
        Meaning(program.text, [j \in DOMAIN L.trace |-> L.trace[j][2]]) =
            <<L.trace, IF L.status[1] = "error" THEN <<"error", Shown(L, L.status[2], 2)>>
                       ELSE <<"values", ShownAll(L, L.status[2])>> >>
=============================================================================
