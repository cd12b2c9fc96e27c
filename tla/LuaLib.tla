------------------------------- MODULE LuaLib -------------------------------
(***************************************************************************)
(* A program, the machine that runs it and the functions it finds: those   *)
(* of the host, and those of lbaselib.c, lstrlib.c and ltablib.c.          *)
(*                                                                         *)
(* The functions of the host may return anything in Results or raise an    *)
(* error; what they are given and what they return is the trace.  A C      *)
(* function that calls others keeps what it needs in the state of its      *)
(* frame, and is entered again when they have returned.                    *)
(***************************************************************************)
EXTENDS LuaStrings

CONSTANT Results    \* the sequences of values that the host may return

Host    == {"ext", "print"}
Base    == Host \cup {"error", "pcall", "xpcall", "setmetatable", "assert", "type", "select", "unpack", "ipairs",
                      "rawequal", "rawget", "rawset"}
Strings == {"len", "sub", "reverse", "lower", "upper", "rep", "byte", "char", "find", "match", "gmatch", "gsub"}
Tables  == {"insert", "remove", "concat", "maxn", "getn", "setn", "foreachi"}
Named(names) == [x \in {Str(n) : n \in names} |-> <<"C", x[2]>>]
Libraries == <<NewTable(Named(Base) @@ (Str("string") :> <<"table", 2>>) @@ (Str("table") :> <<"table", 3>>)),
               NewTable(Named(Strings)), NewTable(Named(Tables)), NewTable(Str("__index") :> <<"table", 2>>)>>

Inside(name)  == /\ L.status = <<"running">> /\ Frame(L).status # "Lua"
                 /\ L.stack[Frame(L).func][2] = name /\ UNCHANGED program
Given         == Cells(L, Frame(L).base, L.top - Frame(L).base)
Begins        == Frame(L).status = "C"    \* entered by its caller, not by the return of what it called
Returns(l, vs) == luaD_poscall(Push(l, vs), l.top)
Waits(l, status, state) == SetFrame(l, [Frame(l) EXCEPT !.status = status, !.state = state])
Returned      == L.stack[L.top - 1]
Popped        == Settop(L, L.top - 1)

\* The arguments that luaL_checktype and the like accept.
isstring(v) == ttype(v) \in {"string", "number"}
Accepts(kind, a, k) ==
    LET v == Arg(a, k)
    IN  CASE kind = "any"       -> k <= Len(a)
          [] kind = "table"     -> v[1] = "table"
          [] kind = "function"  -> ttisfunction(v)
          [] kind = "string"    -> isstring(v)
          [] kind = "int"       -> isnumber(v)
          [] kind = "optstring" -> v = Nil \/ isstring(v)
          [] kind = "optint"    -> v = Nil \/ isnumber(v)
Fits(kinds) == \A k \in DOMAIN kinds : Accepts(kinds[k], Given, k)
Does(name, kinds, l, vs) ==
    /\ Inside(name)
    /\ L' = IF ~Fits(kinds) \/ \E j \in DOMAIN vs : vs[j] = Error THEN luaG_runerror(L) ELSE Returns(l, vs)
Gives(name, kinds, vs) == Does(name, kinds, L, vs)

---------------------------------------------------------------------------
(***************************************************************************)
(* The host                                                                *)
(***************************************************************************)
\* What the host sees of a value.
RECURSIVE Shown(_, _, _)
Shown(l, v, depth) ==
    CASE v[1] = "table" /\ depth > 0 -> <<"table", {<<k, Shown(l, l.heap[v[2]].map[k], depth - 1)>> :
                                                      k \in {x \in DOMAIN l.heap[v[2]].map : x[1] # "table"}}>>
      [] v[1] = "table" /\ depth = 0 -> <<"table", {}>>
      [] v[1] \in {"function", "C"}  -> <<"function">>
      [] OTHER -> v
ShownAll(l, vs) == [j \in DOMAIN vs |-> Shown(l, vs[j], 2)]

Traced(what) == [L EXCEPT !.trace = Append(@, <<ShownAll(L, Given), what>>)]
HostReturns == \/ \E vs \in Results : Inside("ext") /\ L' = Returns(Traced(<<"returns", vs>>), vs)
               \/ Inside("print") /\ L' = Returns(Traced(<<"returns", <<>>>>), <<>>)
HostFails   == Inside("ext") /\ L' = luaG_runerror(Traced(<<"fails">>))

---------------------------------------------------------------------------
(***************************************************************************)
(* lbaselib.c                                                              *)
(***************************************************************************)
\* The text of an error gets the place of it, unless level is 0.
luaB_error ==
    /\ Inside("error")
    /\ L' = IF ~Accepts("optint", Given, 2) THEN luaG_runerror(L)
            ELSE Raised(L, IF isstring(Arg(Given, 1)) /\ optint(Given, 2, 1) > 0 THEN Message ELSE Arg(Given, 1))
luaB_setmetatable ==
    /\ Inside("setmetatable")
    /\ L' = IF Len(Given) < 2 \/ Given[1][1] # "table" \/ Given[2][1] \notin {"nil", "table"}
               \/ luaT_gettmbyobj(L, Given[1], "__metatable") # Nil
            THEN luaG_runerror(L)
            ELSE Returns([L EXCEPT !.heap[Given[1][2]].meta = IF Given[2] = Nil THEN 0 ELSE Given[2][2]], <<Given[1]>>)

\* The function at func is called; its results, or the error, come back.
Protected(l, func, handler) == luaD_precall(Waits(l, "calling", <<func>> \o handler), func, LUA_MULTRET, <<"pcall">>)
WithStatus(results) == luaD_poscall(Push(L, <<Bool(Frame(L).status = "succeeded")>> \o results), L.top)
luaB_pcall  == /\ Inside("pcall")
               /\ L' = IF ~Begins THEN WithStatus(Given)
                       ELSE IF Given = <<>> THEN luaG_runerror(L) ELSE Protected(L, Frame(L).base, <<>>)
luaB_xpcall ==
    /\ Inside("xpcall")
    /\ LET base == Frame(L).base
           swapped == Settop(PutAll(L, base, <<Given[2], Given[1]>>), base + 2)
       IN  L' = IF ~Begins THEN WithStatus(Tail(Given))
                ELSE IF Len(Given) < 2 THEN luaG_runerror(L) ELSE Protected(swapped, base + 1, <<Given[2]>>)

luaB_assert   == Gives("assert", <<"any">>, IF l_isfalse(Given[1]) THEN <<Error>> ELSE Given)
luaB_type     == Gives("type", <<"any">>, <<Str(IF ttisfunction(Given[1]) THEN "function" ELSE ttype(Given[1]))>>)
luaB_rawequal == Gives("rawequal", <<"any", "any">>, <<Bool(Given[1] = Given[2] /\ Given[1] # nan)>>)
luaB_rawget   == Gives("rawget", <<"table", "any">>, <<luaH_get(L, Given[1][2], Given[2])>>)
luaB_rawset   == Does("rawset", <<"table", "any", "any">>, Rawset(L, Given[1][2], Given[2], Given[3]),
                      IF Given[2] \in {Nil, nan} THEN <<Error>> ELSE <<Given[1]>>)
luaB_select ==
    LET n == Len(Given)
        i == AtMost(luaV_tonumber(Given[1])[2], n)
        from == IF i < 0 THEN n + i ELSE i
        counts == Given # <<>> /\ Given[1][1] = "string" /\ At(Given[1][2], 1) = "#"
    IN  Gives("select", IF counts THEN <<>> ELSE <<"int">>,
              IF counts THEN <<Num(n - 1)>> ELSE IF from < 1 THEN <<Error>> ELSE SubSeq(Given, from + 1, n))
luaB_unpack ==
    LET i == optint(Given, 2, 1)
        e == optint(Given, 3, luaH_getn(L, Given[1][2]))
    IN  Gives("unpack", <<"table", "optint", "optint">>,
              [j \in 1 .. AtLeast(e - i + 1, 0) |-> luaH_get(L, Given[1][2], Num(i + j - 1))])
luaB_ipairs == Gives("ipairs", <<"table">>, <<<<"C", "ipairsaux">>, Given[1], Num(0)>>)
ipairsaux ==
    LET i == optint(Given, 2, 0) + 1
        v == luaH_get(L, Given[1][2], Num(i))
    IN  Gives("ipairsaux", <<"table", "int">>, IF v = Nil THEN <<>> ELSE <<Num(i), v>>)

---------------------------------------------------------------------------
(***************************************************************************)
(* ltablib.c                                                               *)
(***************************************************************************)
Upto(from, to)   == [j \in 1 .. to - from + 1 |-> from + j - 1]
Downto(from, to) == [j \in 1 .. from - to + 1 |-> from - j + 1]
Moved(l, t, is, by) == FoldLeft(LAMBDA g, i : Rawset(g, t, Num(i), luaH_get(g, t, Num(i + by))), l, is)

tinsert ==
    LET t == Given[1][2]
        n == Len(Given)
        e == luaH_getn(L, t) + 1
        pos == IF n = 2 THEN e ELSE optint(Given, 2, e)
    IN  Does("insert", IF n = 3 THEN <<"table", "int">> ELSE <<"table">>,
             Rawset(Moved(L, t, Downto(AtLeast(e, pos), pos + 1), -1), t, Num(pos), Given[n]),
             IF n \in {2, 3} THEN <<>> ELSE <<Error>>)
tremove ==
    LET t == Given[1][2]
        e == luaH_getn(L, t)
        pos == optint(Given, 2, e)
        within == 1 <= pos /\ pos <= e
    IN  Does("remove", <<"table", "optint">>,
             IF within THEN Rawset(Moved(L, t, Upto(pos, e - 1), 1), t, Num(e), Nil) ELSE L,
             IF within THEN <<luaH_get(L, t, Num(pos))>> ELSE <<>>)
tconcat ==
    LET field(k) == luaH_get(L, Given[1][2], Num(k))
        sep  == IF Arg(Given, 2) = Nil THEN "" ELSE Text(Given, 2)
        last == optint(Given, 4, luaH_getn(L, Given[1][2]))
        is   == Upto(optint(Given, 3, 1), last)
    IN  Gives("concat", <<"table", "optstring", "optint", "optint">>,
              IF \E j \in DOMAIN is : ~isstring(field(is[j])) THEN <<Error>>
              ELSE <<Str(FoldLeft(LAMBDA b, i : b \o tostring(field(i))[2] \o IF i < last THEN sep ELSE "", "", is))>>)
maxn == LET numbers == {0} \cup {x[2] : x \in {y \in DOMAIN L.heap[Given[1][2]].map : y[1] = "number"}}
        IN  Gives("maxn", <<"table">>, <<Num(CHOOSE x \in numbers : \A y \in numbers : y <= x)>>)
getn == Gives("getn", <<"table">>, <<Num(luaH_getn(L, Given[1][2]))>>)
setn == Gives("setn", <<"table">>, <<Error>>)

\* state: the index of the last call, and the length when it began.
foreachi ==
    LET t == L.stack[Frame(L).base]
        state == IF Begins THEN <<0, luaH_getn(L, t[2])>> ELSE Frame(L).state
        l == IF Begins THEN L ELSE Popped
        i == state[1] + 1
    IN  /\ Inside("foreachi")
        /\ L' = IF Begins /\ ~Fits(<<"table", "function">>) THEN luaG_runerror(L)
                ELSE IF ~Begins /\ Returned # Nil THEN Returns(l, <<Returned>>)
                ELSE IF i > state[2] THEN Returns(l, <<>>)
                ELSE Called(Waits(l, "waiting", <<i, state[2]>>), L.stack[Frame(L).base + 1],
                            <<Num(i), luaH_get(L, t[2], Num(i))>>, 1, <<"none">>)

---------------------------------------------------------------------------
(***************************************************************************)
(* lstrlib.c                                                               *)
(***************************************************************************)
String == \/ Gives("len", <<"string">>, str_len(Given))
          \/ Gives("sub", <<"string", "int", "optint">>, str_sub(Given))
          \/ Gives("reverse", <<"string">>, str_reverse(Given))
          \/ Gives("lower", <<"string">>, str_lower(Given))
          \/ Gives("upper", <<"string">>, str_upper(Given))
          \/ Gives("rep", <<"string", "int">>, str_rep(Given))
          \/ Gives("byte", <<"string", "optint", "optint">>, str_byte(Given))
          \/ Gives("char", [j \in DOMAIN Given |-> "int"], str_char(Given))
          \/ Gives("find", <<"string", "string", "optint">>, str_find_aux(Given, TRUE))
          \/ Gives("match", <<"string", "string", "optint">>, str_find_aux(Given, FALSE))

\* The iterator is a C function with three upvalues.
gmatch == Does("gmatch", <<"string", "string">>,
               New(L, [k |-> "upvalues", src |-> Text(Given, 1), p |-> Text(Given, 2), from |-> 1]),
               << <<"C", "gmatch_aux", Len(L.heap) + 1>> >>)
Iterator == LET h == L.stack[Frame(L).func][3]
                r == gmatch_aux(L.heap[h].src, L.heap[h].p, L.heap[h].from)
            IN  Does("gmatch_aux", <<>>, [L EXCEPT !.heap[h].from = r[2]], r[1])

\* gsub: state has the arguments, the place src it has come to, n, the text
\* b so far, and the end e of the match whose value it waits for.
Substitution == [s |-> Text(Given, 1), p |-> Text(Given, 2), repl |-> Given[3], src |-> 1, n |-> 0, b |-> "",
                 max_s |-> optint(Given, 4, Len(Text(Given, 1)) + 1), e |-> NULL, done |-> FALSE]
\* A match that is not empty is skipped, otherwise one character is copied.
Advanced(g, e) ==
    LET more == g.src <= Len(g.s)
    IN  IF e # NULL /\ e > g.src THEN [g EXCEPT !.src = e, !.done = anchor(g.p)]
        ELSE [g EXCEPT !.src = IF more THEN @ + 1 ELSE @, !.b = @ \o At(g.s, g.src), !.done = ~more \/ anchor(g.p)]
Added(g, text, e) == Advanced([g EXCEPT !.n = @ + 1, !.b = @ \o text], e)
gsub ==
    /\ Inside("gsub") /\ Begins
    /\ L' = IF /\ Fits(<<"string", "string", "any", "optint">>)
               /\ isstring(Given[3]) \/ ttisfunction(Given[3]) \/ Given[3][1] = "table"
            THEN Waits(L, "turn", Substitution) ELSE luaG_runerror(L)
GsubTurn ==
    LET g == Frame(L).state
        Turn(h) == Waits(L, "turn", h)
        Replaced(text, e) == IF text = Error THEN luaG_runerror(L) ELSE Turn(Added(g, text[2], e))
        Asked(wait, captures) ==
            IF \E j \in DOMAIN captures : captures[j] = Error /\ (j = 1 \/ g.repl[1] # "table") THEN luaG_runerror(L)
            ELSE IF g.repl[1] = "table" THEN luaV_gettable(Push(wait, <<Nil>>), g.repl, captures[1], L.top)
            ELSE Called(wait, g.repl, captures, 1, <<"none">>)
        With(m) == CASE m.e = NULL  -> Turn(Advanced(g, NULL))
                     [] m.e = ERROR -> luaG_runerror(L)
                     [] OTHER -> IF isstring(g.repl) THEN Replaced(add_s(m, tostring(g.repl)[2], g.src, m.e), m.e)
                                 ELSE Asked(Waits(L, "value", [g EXCEPT !.e = m.e]), push_captures(m, g.src, m.e))
    IN  /\ Inside("gsub") /\ Frame(L).status = "turn"
        /\ L' = IF g.done \/ g.n >= g.max_s
                THEN Returns(L, <<Str(g.b \o SubSeq(g.s, g.src, Len(g.s))), Num(g.n)>>)
                ELSE With(Matched(g.s, g.p, g.src, IF anchor(g.p) THEN 2 ELSE 1))
GsubValue ==
    LET g == Frame(L).state
    IN  /\ Inside("gsub") /\ Frame(L).status = "value"
        /\ L' = IF l_isfalse(Returned) THEN Waits(Popped, "turn", Added(g, SubSeq(g.s, g.src, g.e - 1), g.e))
                ELSE IF ~isstring(Returned) THEN luaG_runerror(L)
                ELSE Waits(Popped, "turn", Added(g, tostring(Returned)[2], g.e))

---------------------------------------------------------------------------
\* f_parser makes the main function of the program, and the host calls it.
Loaded(f) ==
    LET main == [k |-> "function", p |-> f, upvals |-> <<>>]
    IN  [stack |-> [j \in 1..STACKSIZE |-> IF j = 1 THEN <<"function", 5>> ELSE <<"garbage">>], top |-> 2,
         ci |-> <<>>, openupval |-> <<>>, upvals |-> <<>>, trace |-> <<>>, status |-> <<"running">>, ok |-> TRUE,
         heap |-> Append(Libraries, main)]
Init == program \in Programs /\ L = luaD_precall(Loaded(program.f), 1, LUA_MULTRET, <<"host">>)

Instruction == \/ Move \/ Loadk \/ Loadbool \/ Loadnil \/ Getupval \/ Setupval \/ Getglobal \/ Setglobal
               \/ Gettable \/ Settable \/ Newtable \/ Self \/ ArithOp \/ Unm \/ Not \/ Length \/ ConcatOp \/ Jmp
               \/ Eq \/ Less \/ Test \/ Testset \/ Call \/ Tailcall \/ Return \/ Forprep \/ Forloop \/ Tforloop
               \/ Setlist \/ Close \/ ClosureOp \/ Vararg
Library == \/ HostReturns \/ HostFails \/ luaB_error \/ luaB_setmetatable \/ luaB_pcall \/ luaB_xpcall \/ luaB_assert
           \/ luaB_type \/ luaB_rawequal \/ luaB_rawget \/ luaB_rawset \/ luaB_select \/ luaB_unpack \/ luaB_ipairs
           \/ ipairsaux \/ tinsert \/ tremove \/ tconcat \/ maxn \/ getn \/ setn \/ foreachi \/ String \/ gmatch
           \/ Iterator \/ gsub \/ GsubTurn \/ GsubValue
Ended   == L.status[1] \in {"values", "error"} /\ UNCHANGED vars

Next == Instruction \/ Library \/ luaG_errormsg \/ Ended
Spec == Init /\ [][Next]_vars
=============================================================================
