------------------------------- MODULE LuaVM -------------------------------
(***************************************************************************)
(* The virtual machine of Lua: luaV_execute and what it calls (lvm.c), the *)
(* calls, returns and errors of ldo.c, the upvalues of lfunc.c.  The C     *)
(* functions a program may call are in LuaLib, with the specification.     *)
(*                                                                         *)
(* L is the thread, a record; the operators map it to the next one, and    *)
(* there is an action for each instruction.  Where C code calls a function *)
(* and goes on after it, the frame of the called function says what is to  *)
(* be done on its return, in its field then.                               *)
(*                                                                         *)
(* A value is a tuple that begins with its type; tables and functions are  *)
(* known by their place on the heap.                                       *)
(***************************************************************************)
EXTENDS LuaCheck

CONSTANTS Programs,    \* the programs that may be run: the text, and what luaY_parser makes of it
          Collation,   \* the strings in the order of strcoll
          STACKSIZE, MAXTAGLOOP

VARIABLES program, L
vars == <<program, L>>

Nil     == <<"nil">>
Bool(b) == <<"boolean", b>>
Num(n)  == <<"number", n>>
Str(s)  == <<"string", s>>
nan     == <<"nan">>
Message == Str("message")    \* the text of an error, whatever it is

l_isfalse(v)     == v \in {Nil, Bool(FALSE)}
ttype(v)         == IF v[1] = "nan" THEN "number" ELSE v[1]
ttisfunction(v)  == v[1] \in {"function", "C"}
luaV_tonumber(v) == IF v[1] # "string" THEN v
                    ELSE LET n == {x \in -9..99 : ToString(x) = v[2]} IN IF n = {} THEN v ELSE Num(CHOOSE x \in n : TRUE)
tostring(v)      == IF v[1] = "number" THEN Str(ToString(v[2])) ELSE v
isnumber(v)      == ttype(luaV_tonumber(v)) = "number"

---------------------------------------------------------------------------
(***************************************************************************)
(* The stack, the frames and the heap                                      *)
(***************************************************************************)
Frame(l)     == Last(l.ci)
R(l, x)      == Frame(l).base + x
Put(l, i, v) == [l EXCEPT !.stack[i] = v]
PutAll(l, i, vs) == [l EXCEPT !.stack = SubSeq(@, 1, i - 1) \o vs \o SubSeq(@, i + Len(vs), Len(@))]
Cells(l, i, n) == SubSeq(l.stack, i, i + n - 1)
Nils(n)        == [j \in 1..n |-> Nil]
Settop(l, i)   == [l EXCEPT !.top = i]
Push(l, vs)    == Settop(PutAll(l, l.top, vs), l.top + Len(vs))
SetFrame(l, f) == [l EXCEPT !.ci[Len(l.ci)] = f]
Goto(l, n)     == [l EXCEPT !.ci[Len(l.ci)].pc = @ + n]
Skip1(l)       == Goto(l, 1)

Closure(l)     == l.heap[l.stack[Frame(l).func][2]]
Code(l)        == Closure(l).p.code
Instr(l)       == Code(l)[Frame(l).pc + 1]
RKv(l, x)      == IF ISK(x) THEN Closure(l).p.k[x - BITRK + 1] ELSE l.stack[R(l, x)]

New(l, o)        == [l EXCEPT !.heap = Append(@, o)]
NewRef(l, type)  == <<type, Len(l.heap) + 1>>    \* what New(l, o) adds
NewTable(map)    == [k |-> "table", map |-> map, meta |-> 0]
luaH_get(l, t, key) == LET m == l.heap[t].map IN IF key \in DOMAIN m THEN m[key] ELSE Nil
Updated(m, key, v)  == [x \in (DOMAIN m \cup {key}) \ (IF v = Nil THEN {key} ELSE {}) |-> IF x = key THEN v ELSE m[x]]
Rawset(l, t, key, v) == [l EXCEPT !.heap[t].map = Updated(@, key, v)]
\* A border of the table, which the programs leave only one choice for.
luaH_getn(l, t) == CHOOSE n \in 0 .. Cardinality(DOMAIN l.heap[t].map) :
                      Num(n + 1) \notin DOMAIN l.heap[t].map /\ (n > 0 => Num(n) \in DOMAIN l.heap[t].map)
\* The metatables are places on the heap; all strings share one.
Globals    == <<"table", 1>>
StringMeta == 4
Metatable(l, v) == IF v[1] = "table" THEN l.heap[v[2]].meta ELSE IF v[1] = "string" THEN StringMeta ELSE 0
luaT_gettmbyobj(l, v, ev) == IF Metatable(l, v) = 0 THEN Nil ELSE luaH_get(l, Metatable(l, v), Str(ev))

---------------------------------------------------------------------------
(***************************************************************************)
(* Upvalues (lfunc.c): open ones are the cells of the stack, and are known *)
(* by their level; the list openupval begins with the highest.             *)
(***************************************************************************)
Open(level) == [open |-> TRUE, level |-> level, v |-> Nil]
FirstBelow(l, level) ==
    LET i == SelectInSeq(l.openupval, LAMBDA u : l.upvals[u].level < level)
    IN  IF i = 0 THEN Len(l.openupval) + 1 ELSE i
KnownUpval(l, level) == SelectSeq(SubSeq(l.openupval, 1, FirstBelow(l, level) - 1),
                                  LAMBDA u : l.upvals[u].level = level)
luaF_findupval(l, level) ==
    IF KnownUpval(l, level) # <<>> THEN l
    ELSE [l EXCEPT !.upvals = Append(@, Open(level)),
                   !.openupval = InsertAt(@, FirstBelow(l, level), Len(l.upvals) + 1)]
luaF_close(l, level) ==
    LET n == FirstBelow(l, level) - 1
        closing == ToSet(SubSeq(l.openupval, 1, n))
    IN  [l EXCEPT !.openupval = SubSeq(@, n + 1, Len(@)),
                  !.upvals = [u \in DOMAIN @ |-> IF u \in closing
                                                 THEN [open |-> FALSE, level |-> 0, v |-> l.stack[@[u].level]] ELSE @[u]]]
Upval(l, x)     == Closure(l).upvals[x + 1]
UpvalValue(l, u) == IF l.upvals[u].open THEN l.stack[l.upvals[u].level] ELSE l.upvals[u].v
SetUpval(l, u, v) == IF l.upvals[u].open THEN Put(l, l.upvals[u].level, v) ELSE [l EXCEPT !.upvals[u].v = v]

---------------------------------------------------------------------------
(***************************************************************************)
(* Calls, returns and errors (ldo.c)                                       *)
(***************************************************************************)
\* An error ends the calls down to the innermost pcall, if there is one,
\* which has the place of the function it called, and maybe a handler.
Catcher(l) == SelectLastInSeq(l.ci, LAMBDA c : c.status = "calling")
luaD_throw(l, v) ==
    LET Caught(g, i, oldtop) ==
            [Settop(Put(g, oldtop, v), oldtop + 1) EXCEPT !.ci = SubSeq(@, 1, i), !.ci[i].status = "failed"]
        Found(i) == IF i = 0 THEN [l EXCEPT !.status = <<"error", v>>]
                    ELSE Caught(luaF_close(l, l.ci[i].state[1]), i, l.ci[i].state[1])
    IN  Found(Catcher(l))
\* Raised, it goes to the handler first: the action luaG_errormsg.
Raised(l, v)     == [l EXCEPT !.status = <<"raised", v>>]
luaG_runerror(l) == Raised(l, Message)

\* The fixed parameters are put after the arguments; an old style function
\* finds the others in the table arg.
ArgTable(extra) == [x \in {Num(j) : j \in {k \in DOMAIN extra : extra[k] # Nil}} \cup {Str("n")} |->
                        IF x = Str("n") THEN Num(Len(extra)) ELSE extra[x[2]]]
WithArg(l, p, extra) ==
    IF "NEEDSARG" \in p.is_vararg
    THEN Asserted(Push(New(l, NewTable(ArgTable(extra))), <<NewRef(l, "table")>>), "HASARG" \in p.is_vararg)
    ELSE l
Fixed(l, p, args) == Push(PutAll(l, l.top - Len(args), Nils(p.numparams)), SubSeq(args, 1, p.numparams))
adjust_varargs(l, p, args) ==
    LET missing == Nils(IF Len(args) < p.numparams THEN p.numparams - Len(args) ELSE 0)
    IN  WithArg(Fixed(Push(l, missing), p, args \o missing), p, SubSeq(args, p.numparams + 1, Len(args)))

NewFrame(func, base, top, nresults, then, status) ==
    [func |-> func, base |-> base, top |-> top, nresults |-> nresults, pc |-> 0, then |-> then, status |-> status]
EnterFrame(l, ci) == [Settop(PutAll(l, l.top, Nils(ci.top - l.top)), ci.top) EXCEPT !.ci = Append(@, ci)]
EnterProto(l, p, func, nargs, nresults, then) ==
    LET Ci(base) == NewFrame(func, base, base + p.maxstacksize, nresults, then, "Lua")
    IN  IF p.is_vararg = {}
        THEN EnterFrame(Settop(l, IF nargs > p.numparams THEN func + 1 + p.numparams ELSE l.top), Ci(func + 1))
        ELSE EnterFrame(adjust_varargs(l, p, Cells(l, func + 1, nargs)),
                        Ci(l.top + IF nargs < p.numparams THEN p.numparams - nargs ELSE 0))
EnterLua(l, func, nresults, then) ==
    EnterProto(l, l.heap[l.stack[func][2]].p, func, l.top - func - 1, nresults, then)
EnterC(l, func, nresults, then) ==
    [l EXCEPT !.ci = Append(@, NewFrame(func, func + 1, l.top, nresults, then, "C") @@ [state |-> <<>>])]
tryfuncTM(l, func) ==
    LET tm == luaT_gettmbyobj(l, l.stack[func], "__call")
        args == Cells(l, func, l.top - func)
    IN  Settop(PutAll(l, func, <<tm>> \o args), l.top + 1)
Entered(l, func, nresults, then) ==
    IF l.stack[func][1] = "function" THEN EnterLua(l, func, nresults, then)
    ELSE IF l.stack[func][1] = "C" THEN EnterC(l, func, nresults, then) ELSE luaG_runerror(l)
luaD_precall(l, func, nresults, then) ==
    Entered(IF ttisfunction(l.stack[func]) THEN l ELSE tryfuncTM(l, func), func, nresults, then)

\* callTMres and callTM: the function f is called with the values args.
Called(l, f, args, nresults, then) == luaD_precall(Push(l, <<f>> \o args), l.top, nresults, then)

\* A handler is called where the error is, and its result thrown instead.
luaG_errormsg ==
    LET v == L.status[2]
        l == [L EXCEPT !.status = <<"running">>]
        i == Catcher(L)
        handler == L.ci[i].state[2]
    IN  /\ L.status[1] = "raised" /\ UNCHANGED program
        /\ L' = IF i = 0 \/ Len(L.ci[i].state) = 1 THEN luaD_throw(l, v)
                ELSE IF ~ttisfunction(handler) THEN luaD_throw(l, Message)
                ELSE Called(l, handler, <<v>>, 1, <<"throw">>)

---------------------------------------------------------------------------
(***************************************************************************)
(* Operations that may call metamethods (lvm.c)                            *)
(***************************************************************************)
\* The first object that is not a table with the key, following the
\* metamethods of event while they are not functions.  In a table to be
\* changed the key is sought with luaH_set, before any metamethod: one that
\* cannot be a key is an error there.
RECURSIVE Lookup(_, _, _, _, _)
Lookup(l, t, key, ev, loop) ==
    LET tm == luaT_gettmbyobj(l, t, ev)
        here == t[1] = "table" /\ (luaH_get(l, t[2], key) # Nil \/ tm = Nil)
        unset == t[1] = "table" /\ ev = "__newindex" /\ key \in {Nil, nan}
    IN  CASE loop = MAXTAGLOOP \/ unset -> <<"error">>
          [] loop < MAXTAGLOOP /\ ~unset /\ here -> <<"raw", t[2]>>
          [] loop < MAXTAGLOOP /\ ~here /\ tm = Nil -> <<"error">>
          [] loop < MAXTAGLOOP /\ ~unset /\ ~here /\ ttisfunction(tm) -> <<"call", tm, t>>
          [] OTHER -> Lookup(l, tm, key, ev, loop + 1)

luaV_gettable(l, t, key, val) ==
    LET to == Lookup(l, t, key, "__index", 0)
    IN  CASE to[1] = "raw"   -> Put(l, val, luaH_get(l, to[2], key))
          [] to[1] = "call"  -> Called(l, to[2], <<to[3], key>>, 1, <<"res", val>>)
          [] to[1] = "error" -> luaG_runerror(l)
luaV_settable(l, t, key, v) ==
    LET to == Lookup(l, t, key, "__newindex", 0)
    IN  CASE to[1] = "raw"   -> Rawset(l, to[2], key, v)
          [] to[1] = "call"  -> Called(l, to[2], <<to[3], key, v>>, 0, <<"none">>)
          [] to[1] = "error" -> luaG_runerror(l)

call_binTM(l, v, w, then, ev) ==
    LET tm == IF luaT_gettmbyobj(l, v, ev) # Nil THEN luaT_gettmbyobj(l, v, ev) ELSE luaT_gettmbyobj(l, w, ev)
    IN  IF tm = Nil THEN luaG_runerror(l) ELSE Called(l, tm, <<v, w>>, 1, then)
Arithmetic(o, v, w) == IF nan \in {v, w} \/ (o = "MOD" /\ w = Num(0)) THEN nan ELSE Num(Arith(o, v[2], w[2]))
event(o) == CASE o = "ADD" -> "__add" [] o = "SUB" -> "__sub" [] o = "MUL" -> "__mul" [] o = "MOD" -> "__mod"
              [] o = "UNM" -> "__unm"
ArithTo(l, ra, v, w, o) ==
    IF isnumber(v) /\ isnumber(w) THEN Put(l, ra, Arithmetic(o, luaV_tonumber(v), luaV_tonumber(w)))
    ELSE call_binTM(l, v, w, <<"res", ra>>, event(o))

\* A test jumps by the JMP that follows it when the value is the expected one.
Branch(l, value, expected) == IF value = expected THEN Goto(l, Instr(l).b + 1) ELSE Skip1(l)
SameTM(l, v, w, e) == /\ luaT_gettmbyobj(l, v, e) # Nil
                      /\ luaT_gettmbyobj(l, v, e) = luaT_gettmbyobj(l, w, e)
Ordered(v, w, o) ==
    IF ttype(v) = "number"
    THEN nan \notin {v, w} /\ IF o = "LT" THEN v[2] < w[2] ELSE v[2] <= w[2]
    ELSE LET i == SelectInSeq(Collation, LAMBDA s : s = v[2])
             j == SelectInSeq(Collation, LAMBDA s : s = w[2])
         IN  IF o = "LT" THEN i < j ELSE i <= j
equalval(l, v, w, cond) ==
    IF v[1] = "table" /\ w[1] = "table" /\ v # w /\ SameTM(l, v, w, "__eq")
    THEN Called(l, luaT_gettmbyobj(l, v, "__eq"), <<v, w>>, 1, <<"test", cond>>)
    ELSE Branch(l, v = w /\ v # nan, cond)
luaV_lessthan(l, v, w, cond, o) ==
    CASE ttype(v) # ttype(w) -> luaG_runerror(l)
      [] ttype(v) = ttype(w) /\ ttype(v) \in {"number", "string"} -> Branch(l, Ordered(v, w, o), cond)
      [] OTHER -> IF SameTM(l, v, w, IF o = "LT" THEN "__lt" ELSE "__le")
                  THEN Called(l, luaT_gettmbyobj(l, v, IF o = "LT" THEN "__lt" ELSE "__le"), <<v, w>>, 1, <<"test", cond>>)
                  ELSE IF o = "LE" /\ SameTM(l, w, v, "__lt")    \* a <= b is not (b < a)
                  THEN Called(l, luaT_gettmbyobj(l, w, "__lt"), <<w, v>>, 1, <<"test", ~cond>>)
                  ELSE luaG_runerror(l)

\* The values of the registers up to last become one, total of them: two
\* operands at a time, but strings and numbers as many as there are.
RECURSIVE luaV_concat(_, _, _, _)
luaV_concat(l, total, last, ra) ==
    LET top == R(l, last) + 1
        v == l.stack[top - 2]
        w == l.stack[top - 1]
        IsText(x) == ttype(x) \in {"string", "number"}
        texts == LET i == SelectLastInSeq(Cells(l, top - total, total), LAMBDA x : ~IsText(x)) IN total - i
        n == IF tostring(w) = Str("") THEN 2 ELSE texts
        text == FoldLeft(LAMBDA s, x : s \o tostring(x)[2], "", Cells(l, top - n, n))
    IN  IF total = 1 THEN Put(l, ra, l.stack[R(l, last)])
        ELSE IF ~IsText(v) \/ ~IsText(w) THEN call_binTM(l, v, w, <<"concat", total, last, ra>>, "__concat")
        ELSE luaV_concat(Put(l, top - n, Str(text)), total - (n - 1), last - (n - 1), ra)

---------------------------------------------------------------------------
(***************************************************************************)
(* What is done when a function has returned                               *)
(***************************************************************************)
Restored(l) == Settop(l, Frame(l).top)
Then(l, ci) ==
    LET result == l.stack[l.top - 1]
        below  == Settop(l, l.top - 1)
    IN  CASE ci.then[1] = "host"   -> [l EXCEPT !.status = <<"values", Cells(l, ci.func, l.top - ci.func)>>]
          [] ci.then[1] = "call"   -> IF ci.nresults = LUA_MULTRET THEN l ELSE Restored(l)
          [] ci.then[1] = "none"   -> l
          [] ci.then[1] = "throw"  -> luaD_throw(below, result)
          [] ci.then[1] = "res"    -> Put(below, ci.then[2], result)
          [] ci.then[1] = "test"   -> Branch(below, ~l_isfalse(result), ci.then[2])
          [] ci.then[1] = "concat" ->
               luaV_concat(Put(below, R(l, ci.then[3]) - 1, result), ci.then[2] - 1, ci.then[3] - 1, ci.then[4])
          [] ci.then[1] = "for"    ->
               LET cb == ci.func
               IN  IF l.stack[cb] = Nil THEN Skip1(Restored(l))
                   ELSE Goto(Put(Restored(l), cb - 1, l.stack[cb]), Instr(l).b + 1)
          [] ci.then[1] = "pcall"  -> [l EXCEPT !.ci[Len(l.ci)].status = "succeeded"]
luaD_poscall(l, firstResult) ==
    LET ci == Frame(l)
        n  == l.top - firstResult
        found == Cells(l, firstResult, IF ci.nresults = LUA_MULTRET \/ n < ci.nresults THEN n ELSE ci.nresults)
        results == found \o Nils(IF ci.nresults = LUA_MULTRET THEN 0 ELSE ci.nresults - Len(found))
    IN  Then(Settop([PutAll(l, ci.func, results) EXCEPT !.ci = SubSeq(@, 1, Len(@) - 1)], ci.func + Len(results)), ci)

---------------------------------------------------------------------------
(***************************************************************************)
(* The instructions (luaV_execute)                                         *)
(***************************************************************************)
I    == Instr(L)
Ra   == R(L, I.a)
Next1 == Skip1(Asserted(L, L.top = Frame(L).top \/ luaG_checkopenop(I)))
Running(o) == L.status = <<"running">> /\ Frame(L).status = "Lua" /\ I.op = o /\ UNCHANGED program
Set(v)     == L' = Put(Next1, Ra, v)

Move      == Running("MOVE") /\ Set(L.stack[R(L, I.b)])
Loadk     == Running("LOADK") /\ Set(RKv(L, RKASK(I.b)))
Loadbool  == Running("LOADBOOL") /\ L' = Goto(Put(Next1, Ra, Bool(I.b = 1)), I.c)
Loadnil   == Running("LOADNIL") /\ L' = PutAll(Next1, Ra, Nils(I.b - I.a + 1))
Getupval  == Running("GETUPVAL") /\ Set(UpvalValue(L, Upval(L, I.b)))
Setupval  == Running("SETUPVAL") /\ L' = SetUpval(Next1, Upval(L, I.b), L.stack[Ra])
Getglobal == /\ Running("GETGLOBAL")
             /\ L' = luaV_gettable(Next1, Globals, RKv(L, RKASK(I.b)), Ra)
Setglobal == /\ Running("SETGLOBAL")
             /\ L' = luaV_settable(Next1, Globals, RKv(L, RKASK(I.b)), L.stack[Ra])
Gettable  == Running("GETTABLE") /\ L' = luaV_gettable(Next1, L.stack[R(L, I.b)], RKv(L, I.c), Ra)
Settable  == Running("SETTABLE") /\ L' = luaV_settable(Next1, L.stack[Ra], RKv(L, I.b), RKv(L, I.c))
Newtable  == Running("NEWTABLE") /\ L' = New(Put(Next1, Ra, NewRef(L, "table")), NewTable(<<>>))
Self      == /\ Running("SELF")
             /\ L' = luaV_gettable(Put(Next1, Ra + 1, L.stack[R(L, I.b)]), L.stack[R(L, I.b)], RKv(L, I.c), Ra)
ArithOp   == \E o \in {"ADD", "SUB", "MUL", "MOD"} :
                Running(o) /\ L' = ArithTo(Next1, Ra, RKv(L, I.b), RKv(L, I.c), o)
Unm       == Running("UNM") /\ L' = ArithTo(Next1, Ra, L.stack[R(L, I.b)], L.stack[R(L, I.b)], "UNM")
Not       == Running("NOT") /\ Set(Bool(l_isfalse(L.stack[R(L, I.b)])))
Length    == /\ Running("LEN")
             /\ LET v == L.stack[R(L, I.b)]
                IN  L' = CASE v[1] = "table"  -> Put(Next1, Ra, Num(luaH_getn(L, v[2])))
                           [] v[1] = "string" -> Put(Next1, Ra, Num(Len(v[2])))
                           [] OTHER -> luaG_runerror(Next1)
ConcatOp  == Running("CONCAT") /\ L' = luaV_concat(Next1, I.c - I.b + 1, I.c, Ra)
Jmp       == Running("JMP") /\ L' = Goto(Next1, I.b)
Eq        == Running("EQ") /\ L' = equalval(Next1, RKv(L, I.b), RKv(L, I.c), I.a = 1)
Less      == \E o \in {"LT", "LE"} :
                Running(o) /\ L' = luaV_lessthan(Next1, RKv(L, I.b), RKv(L, I.c), I.a = 1, o)
Test      == Running("TEST") /\ L' = Branch(Next1, l_isfalse(L.stack[Ra]), I.c = 0)
Testset   == /\ Running("TESTSET")
             /\ LET v == L.stack[R(L, I.b)]
                IN  L' = IF l_isfalse(v) = (I.c = 0) THEN Branch(Put(Next1, Ra, v), TRUE, TRUE) ELSE Skip1(Next1)

Args(l) == IF I.b = 0 THEN l ELSE Settop(l, Ra + I.b)
Call    == Running("CALL") /\ L' = luaD_precall(Args(Next1), Ra, I.c - 1, <<"call">>)
\* The new frame takes the place of the previous one.
Tailcall ==
    /\ Running("TAILCALL")
    /\ LET g == luaD_precall(Asserted(Args(Next1), I.c = 0), Ra, LUA_MULTRET, <<"call">>)
           new == Frame(g)
           old == Frame(L)
           closed == luaF_close(g, old.base)
           moved == PutAll(closed, old.func, Cells(closed, new.func, g.top - new.func))
           top == old.func + (g.top - new.func)
           base == old.func + (new.base - new.func)
       IN  L' = IF new.func # Ra \/ new.status # "Lua" THEN g
                ELSE [Asserted(Settop(moved, top), top = base + g.heap[g.stack[new.func][2]].p.maxstacksize) EXCEPT
                         !.ci = Append(Front(L.ci), [old EXCEPT !.base = base, !.top = top, !.pc = 0])]
Return  == /\ Running("RETURN")
           /\ LET g == luaF_close(IF I.b = 0 THEN Next1 ELSE Settop(Next1, Ra + I.b - 1), Frame(L).base)
              IN  L' = luaD_poscall(g, Ra)

Forprep  == /\ Running("FORPREP")
            /\ LET v == [j \in 0..2 |-> luaV_tonumber(L.stack[Ra + j])]
               IN  L' = IF \E j \in 0..2 : ttype(v[j]) # "number" THEN luaG_runerror(Next1)
                        ELSE Goto(PutAll(Next1, Ra, <<Arithmetic("SUB", v[0], v[2]), v[1], v[2]>>), I.b)
Forloop  == /\ Running("FORLOOP")
            /\ LET step == L.stack[Ra + 2]
                   idx  == Arithmetic("ADD", L.stack[Ra], step)
                   limit == L.stack[Ra + 1]
                   more == IF Ordered(Num(0), step, "LT") THEN Ordered(idx, limit, "LE") ELSE Ordered(limit, idx, "LE")
               IN  L' = IF more THEN Goto(Put(Put(Next1, Ra, idx), Ra + 3, idx), I.b) ELSE Next1
Tforloop == /\ Running("TFORLOOP")
            /\ L' = luaD_precall(Settop(PutAll(Next1, Ra + 3, Cells(L, Ra, 3)), Ra + 6), Ra + 3, I.c, <<"for">>)
Setlist  == /\ Running("SETLIST")
            /\ LET n == IF I.b = 0 THEN L.top - Ra - 1 ELSE I.b
                   g == IF I.b = 0 THEN Restored(Next1) ELSE Next1
                   c == IF I.c = 0 THEN Instr(Next1).b ELSE I.c
                   h == L.stack[Ra]
                   last == (c - 1) * LFIELDS_PER_FLUSH + n
                   filled == FoldLeft(LAMBDA l, j : Rawset(l, h[2], Num(last - n + j), L.stack[Ra + j]), g,
                                      [j \in 1..n |-> j])
               IN  L' = IF I.c = 0 THEN Skip1(filled) ELSE filled
Close    == Running("CLOSE") /\ L' = luaF_close(Next1, Ra)
ClosureOp ==
    /\ Running("CLOSURE")
    /\ LET p == Closure(L).p.p[I.b + 1]
           words == [j \in 1..p.nups |-> Code(L)[Frame(Next1).pc + j]]
           g == FoldLeft(LAMBDA l, w : IF w.op = "GETUPVAL" THEN l
                                       ELSE luaF_findupval(Asserted(l, w.op = "MOVE"), R(l, w.b)), Next1, words)
           upvals == [j \in 1..p.nups |-> IF words[j].op = "GETUPVAL" THEN Upval(L, words[j].b)
                                          ELSE KnownUpval(g, R(L, words[j].b))[1]]
       IN  L' = Goto(New(Put(g, Ra, NewRef(L, "function")), [k |-> "function", p |-> p, upvals |-> upvals]), p.nups)
Vararg   == /\ Running("VARARG")
            /\ LET n == Frame(L).base - Frame(L).func - Closure(L).p.numparams - 1
                   b == IF I.b = 0 THEN n ELSE I.b - 1
                   vs == [j \in 1..b |-> IF j <= n THEN L.stack[Frame(L).base - n + j - 1] ELSE Nil]
               IN  L' = PutAll(IF I.b = 0 THEN Settop(Next1, Ra + n) ELSE Next1, Ra, vs)
=============================================================================
